---- MODULE Spec2Model ----
(***************************************************************************)
(* serde_ipld_dagjson: the DAG-JSON transcoding layer.                     *)
(*                                                                         *)
(* Text is a sequence of one-character strings, a byte string a sequence   *)
(* of numbers 0..255, and the wire format a sequence of JSON tokens (the   *)
(* lexical level of the JSON library the crate wraps).  The encoder and    *)
(* the decoder are pure functions; the state machine at the end applies    *)
(* the entry points (to_vec, from_slice, from_reader, links) to inputs     *)
(* drawn from bounded sets.                                                *)
(***************************************************************************)
EXTENDS Integers, Sequences, FiniteSets, TLC

(***************************************************************************)
(* Bounds of the model.                                                    *)
(***************************************************************************)
\* entries of an enumerated object / elements of an enumerated array
MaxWidth == 2
\* tokens that may follow the top-level value on the wire
MaxTrail == 1

(***************************************************************************)
(* Bit regrouping: the arithmetic of the base-2^k text encodings.          *)
(***************************************************************************)
\* the element of a one-element set.  The({f(x) : x \in {e}}) is f(e), with
\* the value of e named x and worked out once
The(S) == CHOOSE x \in S : TRUE

Pow2(n) ==
    CASE n = 0 -> 1 [] n = 1 -> 2 [] n = 2 -> 4 [] n = 3 -> 8 [] n = 4 -> 16
      [] n = 5 -> 32 [] n = 6 -> 64 [] n = 7 -> 128 [] n = 8 -> 256

\* bit i (1 is the most significant) of the w-bit number n
BitOf(n, w, i) == (n \div Pow2(w - i)) % 2

\* bit j of the concatenated w-bit groups, 0 past the end
BitAt(groups, w, j) ==
    IF j > w * Len(groups) THEN 0
    ELSE BitOf(groups[((j - 1) \div w) + 1], w, ((j - 1) % w) + 1)

RECURSIVE GroupValue(_, _, _, _, _)
GroupValue(groups, w, first, k, acc) ==
    IF k = 0 THEN acc
    ELSE GroupValue(groups, w, first + 1, k - 1, 2 * acc + BitAt(groups, w, first))

\* `count` v-bit groups read from the bit string of the w-bit groups
Regroup(groups, w, v, count) ==
    [g \in 1..count |-> GroupValue(groups, w, (g - 1) * v + 1, v, 0)]

\* the index (from 0) of character c in an alphabet, -1 when it is not in it
IndexIn(alphabet, c) ==
    IF \E i \in 1..Len(alphabet) : alphabet[i] = c
    THEN (CHOOSE i \in 1..Len(alphabet) : alphabet[i] = c) - 1
    ELSE -1

\* Encoding without padding: ceil(8n/v) characters
BaseEncode(alphabet, v, bytes) ==
    The({[i \in 1..Len(g) |-> alphabet[g[i] + 1]] :
            g \in {Regroup(bytes, 8, v, (8 * Len(bytes) + (v - 1)) \div v)}})

\* Decoding without padding: every character in the alphabet, a length that
\* whole bytes can produce, and zero trailing bits.
BaseDecode(alphabet, v, text) ==
    The({IF \E i \in 1..Len(text) : idx[i] < 0 THEN [ok |-> FALSE, bytes |-> <<>>]
         ELSE IF v * Len(text) - 8 * nbytes >= v THEN [ok |-> FALSE, bytes |-> <<>>]
         ELSE IF \E j \in (8 * nbytes + 1)..(v * Len(text)) : BitAt(idx, v, j) # 0
              THEN [ok |-> FALSE, bytes |-> <<>>]
         ELSE [ok |-> TRUE, bytes |-> Regroup(idx, v, 8, nbytes)] :
            idx \in {[i \in 1..Len(text) |-> IndexIn(alphabet, text[i])]},
            nbytes \in {(v * Len(text)) \div 8}})

Base64Alphabet ==
    <<"A","B","C","D","E","F","G","H","I","J","K","L","M","N","O","P","Q","R","S","T",
      "U","V","W","X","Y","Z","a","b","c","d","e","f","g","h","i","j","k","l","m","n",
      "o","p","q","r","s","t","u","v","w","x","y","z","0","1","2","3","4","5","6","7",
      "8","9","+","/">>

Base32Alphabet ==
    <<"a","b","c","d","e","f","g","h","i","j","k","l","m","n","o","p","q","r","s","t",
      "u","v","w","x","y","z","2","3","4","5","6","7">>

\* multibase Base::Base64 (no padding, no prefix)
Base64Encode(bytes) == BaseEncode(Base64Alphabet, 6, bytes)
Base64Decode(text) == BaseDecode(Base64Alphabet, 6, text)

(***************************************************************************)
(* CIDs (the cid crate): a CID is its binary form, version 1, a codec, and *)
(* a multihash (code, digest length, digest); its canonical text is the    *)
(* multibase prefix "b" and the lower-case base32 of the binary form.      *)
(***************************************************************************)
\* Cid::try_from(&[u8]): reads one CID from the front of the bytes
CidFromBytes(bytes) ==
    IF Len(bytes) >= 4 /\ bytes[1] = 1 /\ bytes[2] < 128 /\ bytes[3] < 128
       /\ bytes[4] <= 64 /\ Len(bytes) >= 4 + bytes[4]
    THEN [ok |-> TRUE, cid |-> SubSeq(bytes, 1, 4 + bytes[4])]
    ELSE [ok |-> FALSE, cid |-> <<>>]

\* Cid::to_bytes
CidToBytes(cid) == cid

\* Cid::to_string
CidToString(cid) == <<"b">> \o BaseEncode(Base32Alphabet, 5, cid)

\* Cid::try_from(&str)
CidFromText(text) ==
    IF Len(text) = 0 \/ text[1] # "b" THEN [ok |-> FALSE, cid |-> <<>>]
    ELSE The({IF d.ok THEN CidFromBytes(d.bytes) ELSE [ok |-> FALSE, cid |-> <<>>] :
                 d \in {BaseDecode(Base32Alphabet, 5, Tail(text))}})

(***************************************************************************)
(* Integers.  An i128 / u128 / u64 / i64 magnitude is a little-endian      *)
(* sequence of 16-bit limbs with no leading zero limb (zero is <<>>), so   *)
(* the widths of the program's integer types are kept.                     *)
(***************************************************************************)
LimbBase == 256 * 256

DigitChars == <<"0","1","2","3","4","5","6","7","8","9">>

\* drop the zero limbs at the most significant end
RECURSIVE MagTrim(_)
MagTrim(m) ==
    IF Len(m) > 0 /\ m[Len(m)] = 0 THEN MagTrim(SubSeq(m, 1, Len(m) - 1)) ELSE m

\* long division by ten from the most significant limb: quotient limbs and remainder
RECURSIVE MagDivTen(_, _, _, _)
MagDivTen(m, i, rem, q) ==
    IF i = 0 THEN [q |-> MagTrim(q), r |-> rem]
    ELSE LET cur == rem * LimbBase + m[i]
         IN MagDivTen(m, i - 1, cur % 10, [q EXCEPT ![i] = cur \div 10])

\* m * 10 + d, carrying from the least significant limb
RECURSIVE MagMulTenAdd(_, _, _, _)
MagMulTenAdd(m, i, carry, acc) ==
    IF i > Len(m) THEN (IF carry = 0 THEN acc ELSE Append(acc, carry))
    ELSE LET cur == m[i] * 10 + carry
         IN MagMulTenAdd(m, i + 1, cur \div LimbBase, Append(acc, cur % LimbBase))

\* itoa: the decimal digits of a magnitude, most significant first, "0" for zero
RECURSIVE MagDigits(_)
MagDigits(m) ==
    IF m = <<>> THEN <<>>
    ELSE LET d == MagDivTen(m, Len(m), 0, m)
         IN Append(MagDigits(d.q), DigitChars[d.r + 1])

MagToText(m) == IF m = <<>> THEN <<"0">> ELSE MagDigits(m)

\* the magnitude a string of decimal digits denotes
RECURSIVE DigitsToMag(_, _, _)
DigitsToMag(text, i, acc) ==
    IF i > Len(text) THEN acc
    ELSE DigitsToMag(text, i + 1, MagMulTenAdd(acc, 1, IndexIn(DigitChars, text[i]), <<>>))

\* magnitude <= u64::MAX = 2^64 - 1: at most four limbs
FitsU64(m) == Len(m) <= 4

\* magnitude <= 2^63 = -i64::MIN
FitsNegI64(m) ==
    \/ Len(m) < 4
    \/ /\ Len(m) = 4
       /\ \/ m[4] < 32768
          \/ m[4] = 32768 /\ m[1] = 0 /\ m[2] = 0 /\ m[3] = 0

RECURSIVE TwoPow(_)
TwoPow(n) == IF n = 0 THEN 1 ELSE 2 * TwoPow(n - 1)

\* the binary digits of a magnitude, least significant first
MagToBits(m) ==
    [i \in 1..(16 * Len(m)) |-> (m[((i - 1) \div 16) + 1] \div TwoPow((i - 1) % 16)) % 2]

RECURSIVE LimbOf(_, _, _, _)
LimbOf(bits, l, k, acc) ==
    IF k = 0 THEN acc
    ELSE LimbOf(bits, l, k - 1,
                2 * acc + (IF 16 * (l - 1) + k <= Len(bits) THEN bits[16 * (l - 1) + k] ELSE 0))

BitsToMag(bits) == MagTrim([l \in 1..((Len(bits) + 15) \div 16) |-> LimbOf(bits, l, 16, 0)])

\* the position of the most significant one, 0 for zero
TopBit(bits) ==
    IF \E i \in 1..Len(bits) : bits[i] = 1
    THEN CHOOSE i \in 1..Len(bits) : bits[i] = 1 /\ \A j \in (i + 1)..Len(bits) : bits[j] = 0
    ELSE 0

\* `x as f64` and the rounding of every f64 operation: the nearest number
\* with a 53-bit significand, ties to the even one (the exponent range of
\* f64 is far from the magnitudes of 128-bit integers)
AsF64(m) ==
    The({IF TopBit(bits) <= 53 THEN m
         ELSE The({The({BitsToMag([i \in 1..(Len(bits) + 1) |->
                                     IF ~up THEN kept[i]
                                     ELSE IF i < j THEN 0 ELSE IF i = j THEN 1 ELSE kept[i]]) :
                          j \in {CHOOSE j \in (cut + 1)..(Len(bits) + 1) :
                                    kept[j] = 0 /\ \A k \in (cut + 1)..(j - 1) : kept[k] = 1}}) :
                    up \in {bits[cut] = 1 /\ (bits[cut + 1] = 1 \/ \E i \in 1..(cut - 1) : bits[i] = 1)},
                    kept \in {[i \in 1..(Len(bits) + 1) |->
                                 IF i <= cut \/ i > Len(bits) THEN 0 ELSE bits[i]]}}) :
            bits \in {MagToBits(m)}, cut \in {TopBit(MagToBits(m)) - 53}})

\* f *= POW10[exponent], one rounded multiplication (10^e is exact up to e = 22)
RECURSIVE TimesPow10(_, _)
TimesPow10(m, e) == IF e = 0 THEN m ELSE TimesPow10(MagMulTenAdd(m, 1, 0, <<>>), e - 1)

\* Deserializer::f64_from_parts for a non-negative exponent
f64_from_parts(significand, exponent) == AsF64(TimesPow10(AsF64(significand), exponent))

\* Deserializer::parse_integer / parse_long_integer: the digits go into a u64
\* significand; from the digit that would overflow it on, digits only count
RECURSIVE parse_integer(_, _, _)
parse_integer(digits, i, significand) ==
    IF i > Len(digits) THEN [significand |-> significand, exponent |-> 0]
    ELSE IF FitsU64(MagMulTenAdd(significand, 1, IndexIn(DigitChars, digits[i]), <<>>))
         THEN parse_integer(digits, i + 1,
                            MagMulTenAdd(significand, 1, IndexIn(DigitChars, digits[i]), <<>>))
         ELSE [significand |-> significand, exponent |-> Len(digits) - i + 1]

(***************************************************************************)
(* Text constants and the byte order of strings (BTreeMap<String, _>).     *)
(***************************************************************************)
\* the characters of the model's strings, in ASCII order
Ascii ==
    <<"!","+","-",".","/","0","1","2","3","4","5","6","7","8","9",
      "A","B","C","D","E","F","G","H","I","J","K","L","M","N","O","P","Q","R","S","T",
      "U","V","W","X","Y","Z","_","a","b","c","d","e","f","g","h","i","j","k","l","m",
      "n","o","p","q","r","s","t","u","v","w","x","y","z">>

RECURSIVE StrLess(_, _)
StrLess(a, b) ==
    IF b = <<>> THEN FALSE
    ELSE IF a = <<>> THEN TRUE
    ELSE IF a[1] # b[1] THEN IndexIn(Ascii, a[1]) < IndexIn(Ascii, b[1])
    ELSE StrLess(Tail(a), Tail(b))

\* the reserved key of DAG-JSON (#[serde(rename = "/")])
SlashKey == <<"/">>

\* the field name of ReservedKeyValue::Bytes
BytesField == <<"b","y","t","e","s">>

\* cid::serde::CID_SERDE_PRIVATE_IDENTIFIER
CID_SERDE_PRIVATE_IDENTIFIER == <<"$","c","i","d">>

(***************************************************************************)
(* The wire: JSON tokens.  `t` is the token's kind ("{", "}", "[", "]",    *)
(* ":", ",", "ws", "null", "true", "false", "str", "num", or "junk" for a  *)
(* byte that starts no JSON token), `s` the text of a string or number.    *)
(***************************************************************************)
Tok(t) == [t |-> t, s |-> <<>>]
StrTok(s) == [t |-> "str", s |-> s]
NumTok(s) == [t |-> "num", s |-> s]

(***************************************************************************)
(* Values.  `kind` names the shape: the Ipld kinds Null, Bool, Integer,    *)
(* Float, String, Bytes, List, Map, Link and the plain Rust shapes the     *)
(* encoder and decoder are also driven by (None, Some, Unit, Struct,       *)
(* TupleVariant).                                                          *)
(***************************************************************************)
VNull == [kind |-> "Null"]
VUnit == [kind |-> "Unit"]
VNone == [kind |-> "None"]
VSome(v) == [kind |-> "Some", v |-> v]
VBool(b) == [kind |-> "Bool", b |-> b]
VInt(neg, mag) == [kind |-> "Integer", neg |-> neg, mag |-> mag]
\* a float: finite (mant * 10^-scale, negated when neg) or cls "inf" / "nan"
VFloat(cls, neg, mant, scale) ==
    [kind |-> "Float", cls |-> cls, neg |-> neg, mant |-> mant, scale |-> scale]
VStr(s) == [kind |-> "String", s |-> s]
VBytes(bytes) == [kind |-> "Bytes", bytes |-> bytes]
VList(items) == [kind |-> "List", items |-> items]
\* entries: a sequence of [k, v], in key order for a BTreeMap
VMap(entries) == [kind |-> "Map", entries |-> entries]
VLink(cid) == [kind |-> "Link", cid |-> cid]
VStruct(fields) == [kind |-> "Struct", fields |-> fields]
VTupleVariant(name, index, variant, fields) ==
    [kind |-> "TupleVariant", name |-> name, index |-> index, variant |-> variant,
     fields |-> fields]

(***************************************************************************)
(* The JSON writer (serde_json::Serializer, compact): each call appends    *)
(* tokens to the output written so far.                                    *)
(***************************************************************************)
\* the result of an encoder step: st is "ok", "err" or "panic"; out is the
\* output written so far, whatever st is
SerOk(out) == [st |-> "ok", out |-> out, err |-> ""]
SerErr(out, msg) == [st |-> "err", out |-> out, err |-> msg]
SerPanic(out) == [st |-> "panic", out |-> out, err |-> "not yet implemented"]

IntText(neg, mag) == (IF neg THEN <<"-">> ELSE <<>>) \o MagToText(mag)

RECURSIVE Zeros(_)
Zeros(n) == IF n <= 0 THEN <<>> ELSE <<"0">> \o Zeros(n - 1)

\* the shortest decimal text of a finite float
FloatText(neg, mant, scale) ==
    LET d == MagToText(mant)
        n == Len(d)
    IN (IF neg THEN <<"-">> ELSE <<>>) \o
       (IF scale = 0 THEN d \o <<".", "0">>
        ELSE IF scale < n THEN SubSeq(d, 1, n - scale) \o <<".">> \o SubSeq(d, n - scale + 1, n)
        ELSE <<"0", ".">> \o Zeros(scale - n) \o d)

(***************************************************************************)
(* The Encoder (ser.rs).  Every operator takes the output written so far   *)
(* and returns a SerOk / SerErr / SerPanic.                                *)
(***************************************************************************)
\* #[derive(Serialize)] of ReservedKeyMap { "/": ReservedKeyValue::Bytes { bytes } }
ReservedBytesTokens(text) ==
    <<Tok("{"), StrTok(SlashKey), Tok(":"),
      Tok("{"), StrTok(BytesField), Tok(":"), StrTok(text), Tok("}"), Tok("}")>>

\* #[derive(Serialize)] of ReservedKeyMap { "/": ReservedKeyValue::Cid(text) }
ReservedCidTokens(text) ==
    <<Tok("{"), StrTok(SlashKey), Tok(":"), StrTok(text), Tok("}")>>

\* Serializer::serialize_f32 / serialize_f64
serialize_f64(v, out) ==
    IF v.cls # "finite"
    THEN SerErr(out, "Float must be a finite number, not Infinity or NaN")
    ELSE SerOk(Append(out, NumTok(FloatText(v.neg, v.mant, v.scale))))

\* Serializer::serialize_i128 / serialize_u128 / serialize_i64 / ...
\* an integer writer that goes through f64, as a JSON number type would
serialize_i128_as_f64(v, out) == SerOk(Append(out, NumTok(IntText(v.neg, AsF64(v.mag)))))

serialize_i128(v, out) == SerOk(Append(out, NumTok(IntText(v.neg, v.mag))))

\* a serialize_bytes that writes the base64 text as a plain JSON string
serialize_bytes_plain(bytes, out) ==
    SerOk(Append(out, StrTok(Base64Encode(bytes))))

\* Serializer::serialize_bytes
serialize_bytes(bytes, out) ==
    SerOk(out \o ReservedBytesTokens(Base64Encode(bytes)))

\* CidSerializer::serialize_bytes
CidSerializer_serialize_bytes(value, out) ==
    LET cid == CidFromBytes(value)
    IN IF ~cid.ok THEN SerErr(out, "Invalid CID")
       ELSE SerOk(out \o ReservedCidTokens(CidToString(cid.cid)))

\* impl Serializer for CidSerializer: everything but bytes is refused
CidSerializer_serialize(value, out) ==
    IF value.kind = "Bytes" THEN CidSerializer_serialize_bytes(value.bytes, out)
    ELSE SerErr(out, "unreachable")

\* a serialize_tuple_variant that takes every payload of one field for a CID
serialize_tuple_variant_by_len(name, variant_index, variant, len, out) ==
    IF len = 1 THEN [mode |-> "Cid", out |-> out]
    ELSE [mode |-> "TupleVariant",
          out |-> out \o <<Tok("{"), StrTok(variant), Tok(":"), Tok("[")>>]

\* Serializer::serialize_tuple_variant: which SerializeCid the request gets
\* ("Cid" or "TupleVariant"), and what the JSON writer has written for it
serialize_tuple_variant(name, variant_index, variant, len, out) ==
    IF name = CID_SERDE_PRIVATE_IDENTIFIER /\ variant_index = 0
       /\ variant = CID_SERDE_PRIVATE_IDENTIFIER /\ len = 1
    THEN [mode |-> "Cid", out |-> out]
    ELSE [mode |-> "TupleVariant",
          out |-> out \o <<Tok("{"), StrTok(variant), Tok(":"), Tok("[")>>]

\* SerializeCid::end
SerializeCid_end(mode, out) ==
    IF mode = "TupleVariant" THEN SerOk(out \o <<Tok("]"), Tok("}")>>)
    ELSE SerPanic(out)

RECURSIVE Serialize(_, _)
RECURSIVE SerializeSeq_elements(_, _, _)
RECURSIVE SerializeMap_entries(_, _, _)
RECURSIVE SerializeCid_fields(_, _, _, _)

\* SerializeCid::serialize_field: the field's own result is dropped
SerializeCid_serialize_field(mode, value, first, out) ==
    IF mode = "TupleVariant"
    THEN LET r == Serialize(value, IF first THEN out ELSE Append(out, Tok(",")))
         IN IF r.st = "panic" THEN r ELSE SerOk(r.out)
    ELSE LET r == CidSerializer_serialize(value, out)
         IN SerOk(r.out)

\* the caller's loop over the fields of a tuple variant: serialize_field(..)?
SerializeCid_fields(mode, fields, i, out) ==
    IF i > Len(fields) THEN SerOk(out)
    ELSE LET r == SerializeCid_serialize_field(mode, fields[i], i = 1, out)
         IN IF r.st # "ok" THEN r ELSE SerializeCid_fields(mode, fields, i + 1, r.out)

\* a tagged-union (tuple variant) request as its Serialize impl issues it:
\* serialize_tuple_variant(..)?, serialize_field(..)? for each field, end()
SerializeTupleVariant(name, variant_index, variant, fields, out) ==
    LET tv == serialize_tuple_variant(name, variant_index, variant, Len(fields), out)
        fs == SerializeCid_fields(tv.mode, fields, 1, tv.out)
    IN IF fs.st # "ok" THEN fs ELSE SerializeCid_end(tv.mode, fs.out)

\* impl SerializeSeq for Serializer: serialize_element for each item
SerializeSeq_elements(items, i, out) ==
    IF i > Len(items) THEN SerOk(out)
    ELSE LET r == Serialize(items[i], IF i = 1 THEN out ELSE Append(out, Tok(",")))
         IN IF r.st # "ok" THEN r ELSE SerializeSeq_elements(items, i + 1, r.out)

\* impl SerializeMap / SerializeStruct for Serializer: key, ":", value
SerializeMap_entries(entries, i, out) ==
    IF i > Len(entries) THEN SerOk(out)
    ELSE LET head == (IF i = 1 THEN out ELSE Append(out, Tok(",")))
                        \o <<StrTok(entries[i].k), Tok(":")>>
             r == Serialize(entries[i].v, head)
         IN IF r.st # "ok" THEN r ELSE SerializeMap_entries(entries, i + 1, r.out)

\* Serializer::collect_seq / serialize_seq
collect_seq(items, out) ==
    LET r == SerializeSeq_elements(items, 1, Append(out, Tok("[")))
    IN IF r.st # "ok" THEN r ELSE SerOk(Append(r.out, Tok("]")))

\* Serializer::collect_map / serialize_map / serialize_struct
collect_map(entries, out) ==
    LET r == SerializeMap_entries(entries, 1, Append(out, Tok("{")))
    IN IF r.st # "ok" THEN r ELSE SerOk(Append(r.out, Tok("}")))

\* SerializeRef::serialize / SerializeSized::serialize: the value's Serialize
\* impl drives a Serializer wrapped around the JSON writer
Serialize(v, out) ==
    CASE v.kind \in {"Null", "None", "Unit"} -> SerOk(Append(out, Tok("null")))
      [] v.kind = "Bool" -> SerOk(Append(out, Tok(IF v.b THEN "true" ELSE "false")))
      [] v.kind = "Integer" -> serialize_i128(v, out)
      [] v.kind = "Float" -> serialize_f64(v, out)
      [] v.kind = "String" -> SerOk(Append(out, StrTok(v.s)))
      [] v.kind = "Bytes" -> serialize_bytes(v.bytes, out)
      [] v.kind = "Some" -> Serialize(v.v, out)
      [] v.kind = "List" -> collect_seq(v.items, out)
      [] v.kind \in {"Map", "Struct"} -> collect_map(IF v.kind = "Map" THEN v.entries ELSE v.fields, out)
      [] v.kind = "Link" ->
           SerializeTupleVariant(CID_SERDE_PRIVATE_IDENTIFIER, 0,
                                 CID_SERDE_PRIVATE_IDENTIFIER,
                                 <<VBytes(CidToBytes(v.cid))>>, out)
      [] v.kind = "TupleVariant" ->
           SerializeTupleVariant(v.name, v.index, v.variant, v.fields, out)

\* to_vec: the bytes on success, only the error otherwise
to_vec(value) ==
    LET r == Serialize(value, <<>>)
    IN IF r.st = "ok" THEN [st |-> "ok", bytes |-> r.out, err |-> ""]
       ELSE [st |-> r.st, bytes |-> <<>>, err |-> r.err]

\* to_writer: the result, and what the stream has received
to_writer(writer, value) ==
    LET r == Serialize(value, writer)
    IN [st |-> r.st, writer |-> r.out, err |-> r.err]

(***************************************************************************)
(* The JSON reader (serde_json::Deserializer over a slice or a reader).    *)
(* A source is its tokens and, for a reader, whether reading past the last *)
(* token fails with an I/O error instead of reporting the end of input.    *)
(***************************************************************************)
SliceSource(toks) == [toks |-> toks, ioerr |-> FALSE]
ReaderSource(toks, ioerr) == [toks |-> toks, ioerr |-> ioerr]

\* errors of the JSON library: cat is its category ("io", "syntax", "eof" or
\* "data"), msg its message, text the offending text a custom message names
EJson(cat, msg) == [cat |-> cat, msg |-> msg, text |-> <<>>]
\* de::Error::custom
ECustom(msg, text) == [cat |-> "data", msg |-> msg, text |-> text]

\* the result of a decoding step: the value and the position after it
DOk(val, pos) == [st |-> "ok", val |-> val, pos |-> pos, err |-> EJson("", "")]
DErr(err) == [st |-> "err", val |-> VNull, pos |-> 0, err |-> err]
DPanic(msg) == [st |-> "panic", val |-> VNull, pos |-> 0, err |-> EJson("panic", msg)]

RECURSIVE SkipWs(_, _)
SkipWs(toks, p) ==
    IF p <= Len(toks) /\ toks[p].t = "ws" THEN SkipWs(toks, p + 1) ELSE p

\* parse_whitespace + peek: the position and kind of the next token; past the
\* end the kind is "eof", or "io" when the reader fails
Peek(src, p) ==
    LET q == SkipWs(src.toks, p)
    IN [pos |-> q,
        t |-> IF q <= Len(src.toks) THEN src.toks[q].t
              ELSE IF src.ioerr THEN "io" ELSE "eof"]

\* the error for running out of input: the reader's failure, or the EOF code
EndErr(pk, code) == IF pk.t = "io" THEN EJson("io", "io error") ELSE EJson("eof", code)

\* the first index of character c in text, 0 when absent
PosOf(text, c) ==
    IF \E i \in 1..Len(text) : text[i] = c
    THEN CHOOSE i \in 1..Len(text) : text[i] = c /\ \A j \in 1..(i - 1) : text[j] # c
    ELSE 0

\* strip the trailing zeros of a decimal fraction: mant * 10^-scale
RECURSIVE FloatNorm(_, _, _)
FloatNorm(neg, mant, scale) ==
    IF scale > 0 /\ (mant = <<>> \/ MagDivTen(mant, Len(mant), 0, mant).r = 0)
    THEN FloatNorm(neg, IF mant = <<>> THEN mant ELSE MagDivTen(mant, Len(mant), 0, mant).q,
                   scale - 1)
    ELSE VFloat("finite", neg, mant, scale)

\* a number reader that keeps every integer literal an integer
ParseNumber_exact(text) ==
    IF PosOf(text, ".") # 0 THEN [visit |-> "f64", v |-> VNull]
    ELSE [visit |-> "i64",
          v |-> VInt(text[1] = "-",
                     DigitsToMag(IF text[1] = "-" THEN Tail(text) ELSE text, 1, <<>>))]

\* Deserializer::parse_any_number: the number a numeric token denotes, as the
\* visitor gets it: visit_u64 / visit_i64 for what fits, otherwise visit_f64
ParseNumber(text) ==
    LET neg    == text[1] = "-"
        body   == IF neg THEN Tail(text) ELSE text
        dot    == PosOf(body, ".")
        digits == IF dot = 0 THEN body
                  ELSE SubSeq(body, 1, dot - 1) \o SubSeq(body, dot + 1, Len(body))
        mag    == DigitsToMag(digits, 1, <<>>)
        int    == parse_integer(body, 1, <<>>)
    IN IF dot # 0 THEN [visit |-> "f64", v |-> FloatNorm(neg, mag, Len(body) - dot)]
       ELSE IF int.exponent > 0
            THEN [visit |-> "f64",
                  v |-> VFloat("finite", neg, f64_from_parts(int.significand, int.exponent), 0)]
       ELSE IF ~neg THEN [visit |-> "u64", v |-> VInt(FALSE, int.significand)]
       ELSE IF int.significand # <<>> /\ FitsNegI64(int.significand)
            THEN [visit |-> "i64", v |-> VInt(TRUE, int.significand)]
       ELSE [visit |-> "f64", v |-> VFloat("finite", TRUE, AsF64(int.significand), 0)]

(***************************************************************************)
(* Target types: what the caller asks the decoder for.                     *)
(***************************************************************************)
TIpld == [t |-> "Ipld"]
TExtractLinks == [t |-> "ExtractLinks"]
TCid == [t |-> "Cid"]
TByteBuf == [t |-> "ByteBuf"]
TByteArray(n) == [t |-> "ByteArray", n |-> n]
TString == [t |-> "String"]
TBool == [t |-> "Bool"]
TU128 == [t |-> "u128"]
TF64 == [t |-> "f64"]
TUnit == [t |-> "Unit"]
\* a newtype struct around a value of type `of`, e.g. struct Wrapper(Cid)
TNewtype(of) == [t |-> "Newtype", of |-> of]
\* a tuple: fields is a sequence of [k, T] (k is not used)
TTuple(fields) == [t |-> "Tuple", fields |-> fields]
\* an enum of tuple variants: variants is a sequence of [name, fields]
TEnum(name, variants) == [t |-> "Enum", name |-> name, variants |-> variants]
\* a struct with #[derive(Deserialize)]: fields is a sequence of [k, T]
TStruct(fields) == [t |-> "Struct", fields |-> fields]
TOption(of) == [t |-> "Option", of |-> of]
TVec(of) == [t |-> "Vec", of |-> of]
TBTreeMap(of) == [t |-> "BTreeMap", of |-> of]
\* serde's buffered Content, used by the untagged ReservedKeyValue
TContent == [t |-> "Content"]
TIgnoredAny == [t |-> "IgnoredAny"]
TReservedKeyValue == [t |-> "ReservedKeyValue"]

\* what ExtractLinks holds: the CIDs found so far
VLinks(links) == [kind |-> "Links", links |-> links]
\* a ReservedKeyValue: variant "Cid" or "Bytes" with its text
VReserved(variant, text) == [kind |-> "Reserved", variant |-> variant, text |-> text]

InvalidType == EJson("data", "invalid type")

\* Deserializer::peek_invalid_type: a typed request met another JSON value
PeekInvalidType(pk) ==
    IF pk.t \in {"eof", "io"} THEN DErr(EndErr(pk, "EOF while parsing a value"))
    ELSE IF pk.t \in {"null", "true", "false", "num", "str", "[", "{"} THEN DErr(InvalidType)
    ELSE DErr(EJson("syntax", "expected value"))

\* a parse that reads the text of the Bytes variant as base32 instead of base64
ReservedKeyValue_parse_base32(v) ==
    IF v.variant = "Cid"
    THEN LET c == CidFromText(v.text)
         IN IF c.ok THEN [st |-> "ok", variant |-> "Cid", cid |-> c.cid, bytes |-> <<>>,
                          err |-> EJson("", "")]
            ELSE [st |-> "err", variant |-> "", cid |-> <<>>, bytes |-> <<>>,
                  err |-> ECustom("Invalid CID", v.text)]
    ELSE LET b == BaseDecode(Base32Alphabet, 5, v.text)
         IN IF b.ok THEN [st |-> "ok", variant |-> "Bytes", cid |-> <<>>, bytes |-> b.bytes,
                          err |-> EJson("", "")]
            ELSE [st |-> "err", variant |-> "", cid |-> <<>>, bytes |-> <<>>,
                  err |-> ECustom("Cannot base decode bytes", v.text)]

\* ReservedKeyValue::parse: the CID or the bytes the reserved text denotes
ReservedKeyValue_parse(v) ==
    IF v.variant = "Cid"
    THEN LET c == CidFromText(v.text)
         IN IF c.ok THEN [st |-> "ok", variant |-> "Cid", cid |-> c.cid, bytes |-> <<>>,
                          err |-> EJson("", "")]
            ELSE [st |-> "err", variant |-> "", cid |-> <<>>, bytes |-> <<>>,
                  err |-> ECustom("Invalid CID", v.text)]
    ELSE LET b == Base64Decode(v.text)
         IN IF b.ok THEN [st |-> "ok", variant |-> "Bytes", cid |-> <<>>, bytes |-> b.bytes,
                          err |-> EJson("", "")]
            ELSE [st |-> "err", variant |-> "", cid |-> <<>>, bytes |-> <<>>,
                  err |-> ECustom("Cannot base decode bytes", v.text)]

\* #[derive(Deserialize)] #[serde(untagged)] of ReservedKeyValue over the
\* buffered content: Cid(String) first, then Bytes { bytes: String }, whose
\* map visitor ignores unknown fields and rejects a repeated or non-string one
ReservedKeyValue_from_content(c) ==
    IF c.kind = "String" THEN [ok |-> TRUE, v |-> VReserved("Cid", c.s)]
    ELSE IF c.kind = "Map"
            /\ Cardinality({i \in 1..Len(c.entries) : c.entries[i].k = BytesField}) = 1
            /\ \A i \in 1..Len(c.entries) :
                  c.entries[i].k = BytesField => c.entries[i].v.kind = "String"
    THEN LET i == CHOOSE j \in 1..Len(c.entries) : c.entries[j].k = BytesField
         IN [ok |-> TRUE, v |-> VReserved("Bytes", c.entries[i].v.s)]
    ELSE [ok |-> FALSE, v |-> VNull]

\* BytesToCidVisitor::visit_bytes over Cid::to_bytes
BytesToCid(cid, pos) ==
    LET c == CidFromBytes(CidToBytes(cid))
    IN IF c.ok THEN DOk(VLink(c.cid), pos)
       ELSE DErr(ECustom("Failed to convert the bytes to a CID", <<>>))

\* CidDeserializer as VariantAccess: tuple_variant hands the CID's bytes to
\* the visitor when asked for one field
CidDeserializer_tuple_variant(cid, len, pos) ==
    IF len = 1 THEN BytesToCid(cid, pos)
    ELSE DErr(ECustom("CidDeserializer only support deserializing CIDs", <<>>))

\* a visit_enum that looks for another tag than the one CidDeserializer yields
ExtractLinks_visit_enum_other_tag(variant, cid, pos) ==
    IF variant = <<"c", "i", "d">>
    THEN LET r == CidDeserializer_tuple_variant(cid, 1, pos)
         IN IF r.st = "ok" THEN DOk(VLinks(<<r.val.cid>>), pos) ELSE r
    ELSE DPanic("TODO")

\* ExtractLinks::visit_enum: the variant name CidDeserializer yields is the
\* CID marker, and its one field is the CID to record
ExtractLinks_visit_enum(variant, cid, pos) ==
    IF variant = CID_SERDE_PRIVATE_IDENTIFIER
    THEN LET r == CidDeserializer_tuple_variant(cid, 1, pos)
         IN IF r.st = "ok" THEN DOk(VLinks(<<r.val.cid>>), pos) ELSE r
    ELSE DPanic("TODO")

\* a visitor without visit_enum: serde's default refuses the callback
T_visit_enum_default(T, cid, pos) == DErr(InvalidType)

\* the target's visitor receives the tagged-union callback carrying a CID
T_visit_enum(T, cid, pos) ==
    CASE T.t = "Ipld" -> CidDeserializer_tuple_variant(cid, 1, pos)
      [] T.t = "ExtractLinks" ->
            ExtractLinks_visit_enum(CID_SERDE_PRIVATE_IDENTIFIER, cid, pos)
      [] OTHER -> DErr(InvalidType)

\* the target's visitor receives a byte buffer
T_visit_byte_buf(T, bytes, pos) ==
    CASE T.t = "Ipld" -> DOk(VBytes(bytes), pos)
      [] T.t = "ExtractLinks" -> DOk(VLinks(<<>>), pos)
      [] T.t = "ByteBuf" -> DOk(VBytes(bytes), pos)
      [] T.t = "ByteArray" ->
            IF Len(bytes) = T.n THEN DOk(VBytes(bytes), pos)
            ELSE DErr(EJson("data", "invalid length"))
      [] OTHER -> DErr(InvalidType)

\* the target's visitor receives a scalar (unit, bool, number or string)
T_visit_scalar_cid_text(T, v, pos) ==
    IF T.t = "ExtractLinks"
    THEN IF v.kind = "String" /\ CidFromText(v.s).ok
         THEN DOk(VLinks(<<CidFromText(v.s).cid>>), pos)
         ELSE DOk(VLinks(<<>>), pos)
    ELSE DOk(v, pos)

T_visit_scalar(T, v, pos) ==
    IF T.t = "ExtractLinks" THEN DOk(VLinks(<<>>), pos) ELSE DOk(v, pos)

(***************************************************************************)
(* Sequences and maps of the JSON reader                                   *)
(***************************************************************************)
NoKey == [some |-> FALSE, k |-> <<>>]
SomeKey(k) == [some |-> TRUE, k |-> k]

\* the key token at a peeked position (second half of MapAccess::next_key_seed)
KeyAt(src, pk) ==
    CASE pk.t = "str" -> [st |-> "key", k |-> src.toks[pk.pos].s, pos |-> pk.pos + 1,
                          err |-> EJson("", "")]
      [] pk.t = "}" -> [st |-> "err", k |-> <<>>, pos |-> 0,
                        err |-> EJson("syntax", "trailing comma")]
      [] pk.t \in {"eof", "io"} -> [st |-> "err", k |-> <<>>, pos |-> 0,
                                    err |-> EndErr(pk, "EOF while parsing a value")]
      [] OTHER -> [st |-> "err", k |-> <<>>, pos |-> 0,
                   err |-> EJson("syntax", "key must be a string")]

\* serde_json MapAccess::next_key_seed: "none" at the closing brace (which
\* it leaves), otherwise the next key and the position after it
NextKey(src, p, first) ==
    LET pk == Peek(src, p)
    IN CASE pk.t = "}" -> [st |-> "none", k |-> <<>>, pos |-> pk.pos, err |-> EJson("", "")]
         [] pk.t \in {"eof", "io"} ->
               [st |-> "err", k |-> <<>>, pos |-> 0,
                err |-> EndErr(pk, "EOF while parsing an object")]
         [] pk.t = "," /\ ~first -> KeyAt(src, Peek(src, pk.pos + 1))
         [] OTHER -> IF first THEN KeyAt(src, pk)
                     ELSE [st |-> "err", k |-> <<>>, pos |-> 0,
                           err |-> EJson("syntax", "expected comma or closing brace")]

\* Deserializer::end_seq
end_seq(src, p, val) ==
    LET pk == Peek(src, p)
    IN CASE pk.t = "]" -> DOk(val, pk.pos + 1)
         [] pk.t = "," -> IF Peek(src, pk.pos + 1).t = "]"
                          THEN DErr(EJson("syntax", "trailing comma"))
                          ELSE DErr(EJson("syntax", "trailing characters"))
         [] pk.t \in {"eof", "io"} -> DErr(EndErr(pk, "EOF while parsing a list"))
         [] OTHER -> DErr(EJson("syntax", "trailing characters"))

\* Deserializer::end_map
end_map(src, p, val) ==
    LET pk == Peek(src, p)
    IN CASE pk.t = "}" -> DOk(val, pk.pos + 1)
         [] pk.t = "," -> DErr(EJson("syntax", "trailing comma"))
         [] pk.t \in {"eof", "io"} -> DErr(EndErr(pk, "EOF while parsing an object"))
         [] OTHER -> DErr(EJson("syntax", "trailing characters"))

\* the type of the elements (or map values) a target's visitor asks for
ElemType(T) == IF T.t \in {"Vec", "BTreeMap"} THEN T.of ELSE T

\* the type of the value a target's visit_map asks for under a key: a derived
\* struct asks for the field's type and ignores the value of an unknown key
EntryType(T, key) ==
    IF T.t # "Struct" THEN ElemType(T)
    ELSE IF \E i \in 1..Len(T.fields) : T.fields[i].k = key
    THEN T.fields[CHOOSE i \in 1..Len(T.fields) : T.fields[i].k = key].T
    ELSE TIgnoredAny

SeqEmpty(T) == IF T.t = "ExtractLinks" THEN VLinks(<<>>) ELSE VList(<<>>)

\* a visit_seq that puts the CIDs of the next element before those collected
SeqPush_front(T, acc, v) ==
    IF T.t = "ExtractLinks" THEN VLinks(v.links \o acc.links)
    ELSE VList(Append(acc.items, v))

\* what a target's visit_seq does with the next element
SeqPush(T, acc, v) ==
    IF T.t = "ExtractLinks" THEN VLinks(acc.links \o v.links)
    ELSE VList(Append(acc.items, v))

HasKey(entries, k) == \E i \in 1..Len(entries) : entries[i].k = k

\* BTreeMap::insert: replace the entry of an equal key, else insert in key order
BTreeInsert(entries, k, v) ==
    IF HasKey(entries, k)
    THEN [i \in 1..Len(entries) |-> IF entries[i].k = k THEN [k |-> k, v |-> v] ELSE entries[i]]
    ELSE LET n == Cardinality({i \in 1..Len(entries) : StrLess(entries[i].k, k)})
         IN SubSeq(entries, 1, n) \o <<[k |-> k, v |-> v]>> \o SubSeq(entries, n + 1, Len(entries))

MapEmpty(T) == IF T.t = "ExtractLinks" THEN VLinks(<<>>) ELSE VMap(<<>>)
\* what a target's visit_map does with the next entry
MapInsert(T, acc, k, v) ==
    CASE T.t = "ExtractLinks" -> [ok |-> TRUE, acc |-> VLinks(acc.links \o v.links)]
      [] T.t = "Ipld" -> [ok |-> ~HasKey(acc.entries, k),
                          acc |-> VMap(BTreeInsert(acc.entries, k, v))]
      [] T.t = "BTreeMap" -> [ok |-> TRUE, acc |-> VMap(BTreeInsert(acc.entries, k, v))]
      [] T.t = "Struct" ->
            IF \E i \in 1..Len(T.fields) : T.fields[i].k = k
            THEN [ok |-> ~HasKey(acc.entries, k),
                  acc |-> VMap(Append(acc.entries, [k |-> k, v |-> v]))]
            ELSE [ok |-> TRUE, acc |-> acc]
      [] OTHER -> [ok |-> TRUE, acc |-> VMap(Append(acc.entries, [k |-> k, v |-> v]))]

(***************************************************************************)
(* The Decoder (de.rs).  Deser(src, p, w, T) is T::deserialize at position *)
(* p: w says whether the deserializer handed to T is the DAG-JSON wrapper  *)
(* (Deserializer<&mut serde_json::Deserializer>) or the bare JSON reader.  *)
(***************************************************************************)
RECURSIVE Deser(_, _, _, _)
RECURSIVE SeqLoop(_, _, _, _, _, _)
RECURSIVE StructSeq(_, _, _, _, _, _)
RECURSIVE MapLoop(_, _, _, _, _, _, _)
RECURSIVE ReservedKeyMap_visit_map(_, _, _, _)

\* serde_json MapAccess::next_value_seed: the colon, then the value
NextValue(src, p, w, T) ==
    The({CASE pk.t = ":" -> Deser(src, pk.pos + 1, w, T)
           [] pk.t \in {"eof", "io"} -> DErr(EndErr(pk, "EOF while parsing an object"))
           [] OTHER -> DErr(EJson("syntax", "expected colon")) :
            pk \in {Peek(src, p)}})

\* the element once one is due (second half of SeqAccess::next_element_seed)
ElementAt(src, pk, w, ET) ==
    CASE pk.t = "]" -> DErr(EJson("syntax", "trailing comma"))
      [] pk.t \in {"eof", "io"} -> DErr(EndErr(pk, "EOF while parsing a value"))
      [] OTHER -> Deser(src, pk.pos, w, ET)

\* serde_json SeqAccess::next_element_seed: "none" at the closing bracket
\* (which it leaves), otherwise the next element, decoded as ET; with w the
\* element gets the wrapper (SeqAccess, de.rs)
NextElement(src, p, first, w, ET) ==
    The({CASE pk.t = "]" ->
                 [st |-> "none", val |-> VNull, pos |-> pk.pos, err |-> EJson("", "")]
           [] pk.t \in {"eof", "io"} -> DErr(EndErr(pk, "EOF while parsing a list"))
           [] pk.t = "," /\ ~first ->
                 The({ElementAt(src, pk2, w, ET) : pk2 \in {Peek(src, pk.pos + 1)}})
           [] OTHER -> IF first THEN Deser(src, pk.pos, w, ET)
                       ELSE DErr(EJson("syntax", "expected comma or closing bracket")) :
            pk \in {Peek(src, p)}})

\* the loop of a target's visit_seq
SeqLoop(src, p, first, w, T, acc) ==
    The({CASE r.st = "none" -> DOk(acc, r.pos)
           [] r.st = "ok" ->
                 The({SeqLoop(src, r.pos, FALSE, w, T, acc2) :
                         acc2 \in {SeqPush(T, acc, r.val)}})
           [] OTHER -> r :
            r \in {NextElement(src, p, first, w, ElemType(T))}})

\* visit_seq of a derived struct: one element per field, in declaration order
StructSeq(src, p, w, T, i, acc) ==
    IF i > Len(T.fields) THEN DOk(VStruct(acc), p)
    ELSE The({CASE r.st = "none" -> DErr(EJson("data", "invalid length"))
                [] r.st = "ok" ->
                      The({StructSeq(src, r.pos, w, T, i + 1, acc2) :
                              acc2 \in {Append(acc, [k |-> T.fields[i].k, v |-> r.val])}})
                [] OTHER -> r :
                 r \in {NextElement(src, p, i = 1, w, T.fields[i].T)}})

\* the end of a target's visit_map: a derived struct needs every field
\* (an absent Option field is None) and holds them in declaration order
MapFinish(T, acc, pos) ==
    IF T.t # "Struct" THEN DOk(acc, pos)
    ELSE IF \E i \in 1..Len(T.fields) :
               ~HasKey(acc.entries, T.fields[i].k) /\ T.fields[i].T.t # "Option"
    THEN DErr(EJson("data", "missing field"))
    ELSE DOk(VStruct([i \in 1..Len(T.fields) |->
               IF HasKey(acc.entries, T.fields[i].k)
               THEN acc.entries[CHOOSE j \in 1..Len(acc.entries) :
                                   acc.entries[j].k = T.fields[i].k]
               ELSE [k |-> T.fields[i].k, v |-> VNone]]), pos)

\* a loop over a map that reads the value of "/" as a reserved value at any
\* position, not only under the first key
MapEntry_reserved(src, p, key, w, T, acc) ==
    The({IF r.st # "ok" THEN r
         ELSE The({IF a.ok THEN MapLoop(src, r.pos, FALSE, NoKey, w, T, a.acc)
                   ELSE DErr(ECustom("Duplicate map key", key)) :
                      a \in {MapInsert(T, acc, key, r.val)}}) :
            r \in {IF key = SlashKey /\ w
                   THEN The({IF value.st # "ok" THEN value
                             ELSE The({CASE parsed.st = "err" -> DErr(parsed.err)
                                         [] parsed.variant = "Cid" ->
                                               T_visit_enum(T, parsed.cid, value.pos)
                                         [] OTHER ->
                                               T_visit_byte_buf(T, parsed.bytes, value.pos) :
                                          parsed \in {ReservedKeyValue_parse(value.val)}}) :
                                value \in {NextValue(src, p, FALSE, TReservedKeyValue)}})
                   ELSE NextValue(src, p, w, EntryType(T, key))}})

\* one entry of the visitor's loop over a map: the value of the key just read
MapEntry(src, p, key, w, T, acc) ==
    The({IF r.st # "ok" THEN r
         ELSE The({IF a.ok THEN MapLoop(src, r.pos, FALSE, NoKey, w, T, a.acc)
                   ELSE DErr(ECustom("Duplicate map key", key)) :
                      a \in {MapInsert(T, acc, key, r.val)}}) :
            r \in {NextValue(src, p, w, EntryType(T, key))}})

\* MapAccess (de.rs) under the target's visit_map: parsed_key, the key the
\* wrapper has already read, is handed out first; later keys come from the
\* JSON reader
MapLoop(src, p, first, parsed_key, w, T, acc) ==
    IF parsed_key.some THEN MapEntry(src, p, parsed_key.k, w, T, acc)
    ELSE The({CASE k.st = "err" -> DErr(k.err)
                [] k.st = "none" -> MapFinish(T, acc, k.pos)
                [] OTHER -> MapEntry(src, k.pos, k.k, w, T, acc) :
                 k \in {NextKey(src, p, first)}})

\* a reserved branch that falls back to an ordinary map when the value
\* under "/" does not parse
Visitor_visit_reserved_fallback(T, value) ==
    IF value.st # "ok" THEN value
    ELSE The({CASE parsed.st = "err" ->
                      DOk(VMap(<<[k |-> SlashKey, v |-> VStr(value.val.text)]>>), value.pos)
                [] parsed.variant = "Cid" -> T_visit_enum(T, parsed.cid, value.pos)
                [] OTHER -> T_visit_byte_buf(T, parsed.bytes, value.pos) :
                 parsed \in {ReservedKeyValue_parse(value.val)}})

\* the second half of Visitor::visit_map's reserved branch: parse the value
\* read under "/" and hand the target a CID or a byte buffer
Visitor_visit_reserved(T, value) ==
    IF value.st # "ok" THEN value
    ELSE The({CASE parsed.st = "err" -> DErr(parsed.err)
                [] parsed.variant = "Cid" -> T_visit_enum(T, parsed.cid, value.pos)
                [] OTHER -> T_visit_byte_buf(T, parsed.bytes, value.pos) :
                 parsed \in {ReservedKeyValue_parse(value.val)}})

\* a visit_map that, after the value under "/", reads the rest of the map the
\* way the derived ReservedKeyMap does: further keys are skipped
Visitor_visit_map_generic_only(src, p, T) ==
    The({CASE maybe_key.st = "err" -> DErr(maybe_key.err)
           [] /\ maybe_key.st = "key" /\ maybe_key.k = SlashKey
              /\ T.t \in {"Ipld", "ExtractLinks"} ->
                 The({Visitor_visit_reserved(T, value) :
                         value \in {NextValue(src, maybe_key.pos, FALSE, TReservedKeyValue)}})
           [] OTHER ->
                 MapLoop(src, maybe_key.pos, maybe_key.st = "none",
                         IF maybe_key.st = "key" THEN SomeKey(maybe_key.k) ELSE NoKey,
                         TRUE, T, MapEmpty(T)) :
            maybe_key \in {NextKey(src, p, TRUE)}})

Visitor_visit_map_dropping_key(src, p, T) ==
    The({CASE maybe_key.st = "err" -> DErr(maybe_key.err)
           [] maybe_key.st = "key" /\ maybe_key.k = SlashKey ->
                 The({Visitor_visit_reserved(T, value) :
                         value \in {NextValue(src, maybe_key.pos, FALSE, TReservedKeyValue)}})
           [] maybe_key.st = "key" ->
                 The({IF value.st # "ok" THEN value
                      ELSE MapLoop(src, value.pos, FALSE, NoKey, TRUE, T, MapEmpty(T)) :
                         value \in {NextValue(src, maybe_key.pos, FALSE, TIgnoredAny)}})
           [] OTHER -> MapLoop(src, maybe_key.pos, TRUE, NoKey, TRUE, T, MapEmpty(T)) :
            maybe_key \in {NextKey(src, p, TRUE)}})

Visitor_visit_map_skipping(src, p, T) ==
    The({CASE maybe_key.st = "err" -> DErr(maybe_key.err)
           [] maybe_key.st = "key" /\ maybe_key.k = SlashKey ->
                 The({IF value.st # "ok" THEN value
                      ELSE Visitor_visit_reserved(
                               T, ReservedKeyMap_visit_map(src, value.pos, FALSE,
                                                           [some |-> TRUE, v |-> value.val])) :
                         value \in {NextValue(src, maybe_key.pos, FALSE, TReservedKeyValue)}})
           [] OTHER ->
                 MapLoop(src, maybe_key.pos, maybe_key.st = "none",
                         IF maybe_key.st = "key" THEN SomeKey(maybe_key.k) ELSE NoKey,
                         TRUE, T, MapEmpty(T)) :
            maybe_key \in {NextKey(src, p, TRUE)}})

\* Visitor::visit_map (de.rs): read the first key; under "/" read a
\* ReservedKeyValue with the bare JSON reader and hand the target a CID or a
\* byte buffer, reading no further key; otherwise hand the target the map
Visitor_visit_map(src, p, T) ==
    The({CASE maybe_key.st = "err" -> DErr(maybe_key.err)
           [] maybe_key.st = "key" /\ maybe_key.k = SlashKey ->
                 The({Visitor_visit_reserved(T, value) :
                         value \in {NextValue(src, maybe_key.pos, FALSE, TReservedKeyValue)}})
           [] OTHER ->
                 MapLoop(src, maybe_key.pos, maybe_key.st = "none",
                         IF maybe_key.st = "key" THEN SomeKey(maybe_key.k) ELSE NoKey,
                         TRUE, T, MapEmpty(T)) :
            maybe_key \in {NextKey(src, p, TRUE)}})

\* the visitor's result, then Deserializer::end_seq / end_map
Closed(src, ret, close) ==
    CASE ret.st # "ok" -> ret
      [] close = "]" -> end_seq(src, ret.pos, ret.val)
      [] OTHER -> end_map(src, ret.pos, ret.val)

\* serde_json Deserializer::deserialize_any under the visitor of T (wrapped
\* in Visitor when w)
JsonAny(src, p, w, T) ==
    The({CASE pk.t = "null" -> T_visit_scalar(T, VNull, pk.pos + 1)
           [] pk.t = "true" -> T_visit_scalar(T, VBool(TRUE), pk.pos + 1)
           [] pk.t = "false" -> T_visit_scalar(T, VBool(FALSE), pk.pos + 1)
           [] pk.t = "num" ->
                 \* the scan of a number looks at the byte after it
                 IF pk.pos = Len(src.toks) /\ src.ioerr
                 THEN DErr(EJson("io", "io error"))
                 ELSE T_visit_scalar(T, ParseNumber(src.toks[pk.pos].s).v, pk.pos + 1)
           [] pk.t = "str" -> T_visit_scalar(T, VStr(src.toks[pk.pos].s), pk.pos + 1)
           [] pk.t = "[" ->
                 The({Closed(src, ret, "]") :
                         ret \in {SeqLoop(src, pk.pos + 1, TRUE, w, T, SeqEmpty(T))}})
           [] pk.t = "{" ->
                 The({Closed(src, ret, "}") :
                         ret \in {IF w THEN Visitor_visit_map(src, pk.pos + 1, T)
                                  ELSE MapLoop(src, pk.pos + 1, TRUE, NoKey, FALSE, T,
                                               MapEmpty(T))}})
           [] pk.t \in {"eof", "io"} -> DErr(EndErr(pk, "EOF while parsing a value"))
           [] OTHER -> DErr(EJson("syntax", "expected value")) :
            pk \in {Peek(src, p)}})

\* #[derive(Deserialize)] of ReservedKeyMap, visit_map: the field "/" once,
\* every other key ignored with its value
ReservedKeyMap_visit_map(src, p, first, slash) ==
    The({CASE k.st = "err" -> DErr(k.err)
           [] k.st = "none" -> IF slash.some THEN DOk(slash.v, k.pos)
                               ELSE DErr(EJson("data", "missing field"))
           [] k.k = SlashKey /\ slash.some -> DErr(EJson("data", "duplicate field"))
           [] OTHER ->
                 The({IF r.st # "ok" THEN r
                      ELSE ReservedKeyMap_visit_map(
                               src, r.pos, FALSE,
                               IF k.k = SlashKey THEN [some |-> TRUE, v |-> r.val]
                               ELSE slash) :
                         r \in {NextValue(src, k.pos, FALSE,
                                          IF k.k = SlashKey THEN TReservedKeyValue
                                          ELSE TIgnoredAny)}}) :
            k \in {NextKey(src, p, first)}})

\* ReservedKeyMap::deserialize on the bare JSON reader (deserialize_struct):
\* an object, or an array whose one element is the field
ReservedKeyMap_deserialize(src, p) ==
    The({CASE pk.t = "{" ->
                 The({Closed(src, ret, "}") :
                         ret \in {ReservedKeyMap_visit_map(src, pk.pos + 1, TRUE,
                                                           [some |-> FALSE, v |-> VNull])}})
           [] pk.t = "[" ->
                 The({CASE ret.st = "none" -> DErr(EJson("data", "invalid length"))
                        [] OTHER -> Closed(src, ret, "]") :
                         ret \in {NextElement(src, pk.pos + 1, TRUE, FALSE,
                                              TReservedKeyValue)}})
           [] OTHER -> PeekInvalidType(pk) :
            pk \in {Peek(src, p)}})

\* a deserialize_reserved_cid that takes the bytes shape for the bytes of a CID
deserialize_reserved_cid_from_bytes(src, p) ==
    The({IF reserved.st # "ok" THEN reserved
         ELSE The({CASE parsed.st = "err" -> DErr(parsed.err)
                     [] parsed.variant = "Cid" -> BytesToCid(parsed.cid, reserved.pos)
                     [] CidFromBytes(parsed.bytes).ok ->
                           BytesToCid(CidFromBytes(parsed.bytes).cid, reserved.pos)
                     [] OTHER -> DErr(ECustom("Invalid CID", <<>>)) :
                      parsed \in {ReservedKeyValue_parse(reserved.val)}}) :
            reserved \in {ReservedKeyMap_deserialize(src, p)}})

\* Deserializer::deserialize_reserved_cid
deserialize_reserved_cid(src, p) ==
    The({IF reserved.st # "ok" THEN reserved
         ELSE The({CASE parsed.st = "err" -> DErr(parsed.err)
                     [] parsed.variant = "Cid" -> BytesToCid(parsed.cid, reserved.pos)
                     [] OTHER -> DErr(ECustom("Expected a CID", <<>>)) :
                      parsed \in {ReservedKeyValue_parse(reserved.val)}}) :
            reserved \in {ReservedKeyMap_deserialize(src, p)}})

\* Deserializer::deserialize_reserved_bytes
deserialize_reserved_bytes(src, p, T) ==
    The({IF reserved.st # "ok" THEN reserved
         ELSE The({CASE parsed.st = "err" -> DErr(parsed.err)
                     [] parsed.variant = "Bytes" ->
                           T_visit_byte_buf(T, parsed.bytes, reserved.pos)
                     [] OTHER -> DErr(ECustom("Expected bytes", <<>>)) :
                      parsed \in {ReservedKeyValue_parse(reserved.val)}}) :
            reserved \in {ReservedKeyMap_deserialize(src, p)}})

\* the untagged ReservedKeyValue: buffer the value as Content, then match
ReservedKeyValue_deserialize(src, p) ==
    The({IF c.st # "ok" THEN c
         ELSE The({IF m.ok THEN DOk(m.v, c.pos)
                   ELSE DErr(EJson("data", "data did not match any variant")) :
                      m \in {ReservedKeyValue_from_content(c.val)}}) :
            c \in {JsonAny(src, p, FALSE, TContent)}})

\* what a typed request does with the value it asked for and got: token
\* kinds `want`, made into a value by the target's visitor
Expect(src, pk, want, val) ==
    IF pk.t \in want THEN DOk(val, pk.pos + 1) ELSE PeekInvalidType(pk)

\* the index (from 1) of the variant named k, 0 when the enum has none
VariantIndex(T, k) ==
    IF \E i \in 1..Len(T.variants) : T.variants[i].name = k
    THEN CHOOSE i \in 1..Len(T.variants) : T.variants[i].name = k
    ELSE 0

\* deserialize_enum -> Visitor::visit_enum -> EnumAccess::variant_seed (the
\* tag and the colon) -> VariantAccess::tuple_variant (the payload, read as
\* a sequence under the wrapper), then the JSON reader's closing brace
deserialize_enum(src, pk, w, T) ==
    CASE pk.t = "str" ->
            DErr(IF VariantIndex(T, src.toks[pk.pos].s) = 0
                 THEN EJson("data", "unknown variant") ELSE InvalidType)
      [] pk.t = "{" ->
            The({CASE key.t # "str" -> PeekInvalidType(key)
                   [] VariantIndex(T, src.toks[key.pos].s) = 0 ->
                         DErr(EJson("data", "unknown variant"))
                   [] OTHER ->
                         The({CASE r.st # "ok" -> r
                                [] Peek(src, r.pos).t = "}" ->
                                      DOk(VTupleVariant(T.name, idx - 1, T.variants[idx].name,
                                                        r.val.items),
                                          Peek(src, r.pos).pos + 1)
                                [] Peek(src, r.pos).t \in {"eof", "io"} ->
                                      DErr(EndErr(Peek(src, r.pos), "EOF while parsing an object"))
                                [] OTHER -> DErr(EJson("syntax", "expected value")) :
                                 idx \in {VariantIndex(T, src.toks[key.pos].s)},
                                 r \in {NextValue(src, key.pos + 1, w,
                                                  TTuple(T.variants[VariantIndex(T, src.toks[key.pos].s)].fields))}}) :
                    key \in {Peek(src, pk.pos + 1)}})
      [] OTHER -> PeekInvalidType(pk)

\* the f64 a number is handed over as when the target is f64 (`x as f64`)
NumberAsF64(v) == IF v.kind = "Integer" THEN VFloat("finite", v.neg, AsF64(v.mag), 0) ELSE v

\* deserialize_f64: the JSON reader's number, as visit_u64 / visit_i64 /
\* visit_f64 pass it through the wrapper to the visitor of f64
deserialize_f64(src, pk) ==
    IF pk.t # "num" THEN PeekInvalidType(pk)
    ELSE IF pk.pos = Len(src.toks) /\ src.ioerr THEN DErr(EJson("io", "io error"))
    ELSE DOk(NumberAsF64(ParseNumber(src.toks[pk.pos].s).v), pk.pos + 1)

\* deserialize_u128: the digits are parsed as a whole; a sign, a fraction
\* or more than 128 bits is out of range
deserialize_u128(src, pk) ==
    IF pk.t # "num" THEN PeekInvalidType(pk)
    ELSE IF pk.pos = Len(src.toks) /\ src.ioerr THEN DErr(EJson("io", "io error"))
    ELSE IF src.toks[pk.pos].s[1] = "-" \/ PosOf(src.toks[pk.pos].s, ".") # 0
            \/ Len(DigitsToMag(src.toks[pk.pos].s, 1, <<>>)) > 8
         THEN DErr(EJson("data", "number out of range"))
    ELSE DOk(VInt(FALSE, DigitsToMag(src.toks[pk.pos].s, 1, <<>>)), pk.pos + 1)

\* Deserializer::deserialize_newtype_struct for a name other than the CID
\* marker, and Visitor::visit_newtype_struct: the JSON reader hands itself to
\* the visitor, and the wrapper passes it on as it is, so the payload is
\* decoded by the bare JSON reader
deserialize_newtype_struct(src, p, w, T) == Deser(src, p, FALSE, T.of)

\* a CID or bytes asked of the bare JSON reader (deserialize_bytes /
\* deserialize_byte_buf): an object, a number, a boolean or null is an
\* invalid type (strings and arrays of numbers, which it takes as bytes, are
\* not among the inputs of such requests)
JsonBytes_deserialize(src, p) ==
    The({CASE pk.t \in {"null", "true", "false", "num", "{", "eof", "io"} -> PeekInvalidType(pk) :
            pk \in {Peek(src, p)}})

\* impl de::Deserializer for Deserializer, as each target type calls it
Deser(src, p, w, T) ==
    CASE T.t \in {"Ipld", "ExtractLinks"} -> JsonAny(src, p, w, T)
      [] T.t = "Content" -> JsonAny(src, p, FALSE, T)
      [] T.t = "IgnoredAny" ->
            The({IF r.st = "ok" THEN DOk(VUnit, r.pos) ELSE r :
                    r \in {JsonAny(src, p, FALSE, TContent)}})
      [] T.t = "ReservedKeyValue" -> ReservedKeyValue_deserialize(src, p)
      [] T.t = "Cid" /\ w -> deserialize_reserved_cid(src, p)
      [] T.t \in {"ByteBuf", "ByteArray"} /\ w -> deserialize_reserved_bytes(src, p, T)
      [] T.t = "Newtype" -> deserialize_newtype_struct(src, p, w, T)
      [] T.t \in {"Cid", "ByteBuf", "ByteArray"} /\ ~w -> JsonBytes_deserialize(src, p)
      [] T.t = "Option" ->
            IF Peek(src, p).t = "null" THEN DOk(VNone, Peek(src, p).pos + 1)
            ELSE The({IF r.st = "ok" THEN DOk(VSome(r.val), r.pos) ELSE r :
                         r \in {Deser(src, p, w, T.of)}})
      [] OTHER ->
            The({CASE T.t = "String" ->
                         Expect(src, pk, {"str"},
                                IF pk.t = "str" THEN VStr(src.toks[pk.pos].s) ELSE VNull)
                   [] T.t = "Bool" -> Expect(src, pk, {"true", "false"}, VBool(pk.t = "true"))
                   [] T.t = "Unit" -> Expect(src, pk, {"null"}, VUnit)
                   [] T.t = "u128" -> deserialize_u128(src, pk)
                   [] T.t = "f64" -> deserialize_f64(src, pk)
                   [] T.t = "Vec" /\ pk.t = "[" ->
                         The({Closed(src, ret, "]") :
                                 ret \in {SeqLoop(src, pk.pos + 1, TRUE, w, T, SeqEmpty(T))}})
                   [] T.t = "Struct" /\ pk.t = "[" ->
                         The({Closed(src, ret, "]") :
                                 ret \in {StructSeq(src, pk.pos + 1, w, T, 1, <<>>)}})
                   [] T.t \in {"BTreeMap", "Struct"} /\ pk.t = "{" ->
                         The({Closed(src, ret, "}") :
                                 ret \in {IF w THEN Visitor_visit_map(src, pk.pos + 1, T)
                                          ELSE MapLoop(src, pk.pos + 1, TRUE, NoKey, FALSE,
                                                       T, MapEmpty(T))}})
                   [] T.t = "Tuple" /\ pk.t = "[" ->
                         The({IF ret.st # "ok" THEN ret
                              ELSE DOk(VList([i \in 1..Len(ret.val.fields) |->
                                                ret.val.fields[i].v]), ret.pos) :
                                 ret \in {Closed(src, StructSeq(src, pk.pos + 1, w, T, 1, <<>>),
                                                 "]")}})
                   [] T.t = "Enum" -> deserialize_enum(src, pk, w, T)
                   [] T.t \in {"Vec", "BTreeMap", "Struct", "Tuple"} -> PeekInvalidType(pk) :
                    pk \in {Peek(src, p)}})

\* an end check that accepts whatever remains
Deserializer_end_lenient(src, p) == [ok |-> TRUE, err |-> EJson("", "")]

\* serde_json Deserializer::end: only whitespace may remain
Deserializer_end(src, p) ==
    The({CASE pk.t = "eof" -> [ok |-> TRUE, err |-> EJson("", "")]
           [] pk.t = "io" -> [ok |-> FALSE, err |-> EJson("io", "io error")]
           [] OTHER -> [ok |-> FALSE, err |-> EJson("syntax", "trailing characters")] :
            pk \in {Peek(src, p)}})

\* DecodeError::Message (From<serde_json::Error>) and DecodeError::TrailingData
DecodeError_Message(e) == [kind |-> "Message", cat |-> e.cat, msg |-> e.msg, text |-> e.text]
DecodeError_TrailingData == [kind |-> "TrailingData", cat |-> "", msg |-> "", text |-> <<>>]
NoError == [kind |-> "", cat |-> "", msg |-> "", text |-> <<>>]

\* from_slice: decode T with the wrapper, then the end check, whose failure
\* becomes TrailingData
from_slice(buf, T) ==
    The({CASE value.st = "panic" -> [st |-> "panic", val |-> VNull, err |-> NoError]
           [] value.st = "err" ->
                 [st |-> "err", val |-> VNull, err |-> DecodeError_Message(value.err)]
           [] Deserializer_end(SliceSource(buf), value.pos).ok ->
                 [st |-> "ok", val |-> value.val, err |-> NoError]
           [] OTHER -> [st |-> "err", val |-> VNull, err |-> DecodeError_TrailingData] :
            value \in {Deser(SliceSource(buf), 1, TRUE, T)}})

\* from_reader: the same over a reader; every failure of the end check,
\* whatever its cause, becomes TrailingData
from_reader(reader, T) ==
    The({CASE value.st = "panic" -> [st |-> "panic", val |-> VNull, err |-> NoError]
           [] value.st = "err" ->
                 [st |-> "err", val |-> VNull, err |-> DecodeError_Message(value.err)]
           [] Deserializer_end(reader, value.pos).ok ->
                 [st |-> "ok", val |-> value.val, err |-> NoError]
           [] OTHER -> [st |-> "err", val |-> VNull, err |-> DecodeError_TrailingData] :
            value \in {Deser(reader, 1, TRUE, T)}})

\* CodecError::Decode(e) / CodecError::Encode(e): From<DecodeError>, From<EncodeError>
CodecError(codec, e) ==
    [codec |-> codec, kind |-> e.kind, cat |-> e.cat, msg |-> e.msg, text |-> e.text]

\* DagJsonCodec::decode: Ok(from_reader(reader)?), the ? through From<DecodeError>
Codec_decode(reader, T) ==
    The({IF r.st = "err" THEN [r EXCEPT !.err = CodecError("Decode", r.err)] ELSE r :
            r \in {from_reader(reader, T)}})

\* DagJsonCodec::encode: Ok(to_writer(writer, data)?), the ? through From<EncodeError>
Codec_encode(writer, data) ==
    The({IF r.st = "err"
         THEN [r EXCEPT !.err = CodecError("Encode", [kind |-> "Message", cat |-> "",
                                                      msg |-> r.err, text |-> <<>>])]
         ELSE r :
            r \in {to_writer(writer, data)}})

\* DagJsonCodec::links: ExtractLinks over the wrapper; no end check follows,
\* and a failure is a serde_json::Error, which CodecError holds as SerdeJson
links_partial(data) ==
    The({CASE r.st = "panic" -> [st |-> "panic", links |-> <<>>, kind |-> ""]
           [] r.st = "err" ->
                 LET seen == {i \in 1..(Len(data) - 3) :
                                 /\ data[i].t = "{" /\ data[i + 1] = StrTok(SlashKey)
                                 /\ data[i + 3].t = "str" /\ CidFromText(data[i + 3].s).ok}
                 IN [st |-> "err",
                     links |-> IF seen = {} THEN <<>>
                               ELSE <<CidFromText(
                                        data[(CHOOSE i \in seen : \A j \in seen : i <= j) + 3].s).cid>>,
                     kind |-> "SerdeJson"]
           [] OTHER -> [st |-> "ok", links |-> r.val.links, kind |-> ""] :
            r \in {Deser(SliceSource(data), 1, TRUE, TExtractLinks)}})

links(data) ==
    The({CASE r.st = "panic" -> [st |-> "panic", links |-> <<>>, kind |-> ""]
           [] r.st = "err" -> [st |-> "err", links |-> <<>>, kind |-> "SerdeJson"]
           [] OTHER -> [st |-> "ok", links |-> r.val.links, kind |-> ""] :
            r \in {Deser(SliceSource(data), 1, TRUE, TExtractLinks)}})

(***************************************************************************)
(* Inputs.  The values handed to the encoder and the documents handed to   *)
(* the decoder are drawn from the sets below.  A document is a sequence of *)
(* tokens as the JSON reader delimits them, so a number token is never     *)
(* directly followed by another number token.                              *)
(***************************************************************************)
\* all sequences over S of length at most n
SeqsUpTo(S, n) == UNION {[1..k -> S] : k \in 0..n}

RECURSIVE Joined(_, _)
\* the token sequences items[i..], separated by commas
Joined(items, i) ==
    IF i > Len(items) THEN <<>>
    ELSE items[i] \o (IF i < Len(items) THEN <<Tok(",")>> ELSE <<>>) \o Joined(items, i + 1)

JsonArray(items) == <<Tok("[")>> \o Joined(items, 1) \o <<Tok("]")>>
\* entries: a sequence of [k, v], v the tokens of the value
JsonObject(entries) ==
    <<Tok("{")>>
    \o Joined([i \in 1..Len(entries) |->
                  <<StrTok(entries[i].k), Tok(":")>> \o entries[i].v], 1)
    \o <<Tok("}")>>

Arrays(S, n) == {JsonArray(items) : items \in SeqsUpTo(S, n)}
Objects(K, S, n) ==
    {JsonObject(entries) : entries \in SeqsUpTo([k : K, v : S], n)}

CidA == <<1, 85, 0, 0>>
CidB == <<1, 85, 0, 1, 97>>
CidTextA == CidToString(CidA)
CidTextB == CidToString(CidB)
\* "dm14", the base64 text of the bytes 118, 109, 120
Dm14 == <<"d","m","1","4">>
NameA == <<"a">>

JsonLink(text) == JsonObject(<<[k |-> SlashKey, v |-> <<StrTok(text)>>]>>)
JsonBytes(text) ==
    JsonObject(<<[k |-> SlashKey,
                  v |-> JsonObject(<<[k |-> BytesField, v |-> <<StrTok(text)>>]>>)]>>)

DocLeaves ==
    {<<Tok("null")>>, <<Tok("true")>>, <<NumTok(<<"7">>)>>, <<StrTok(CidTextA)>>,
     <<StrTok(Dm14)>>}

\* one level over the leaves: every array and every object (keys in any
\* order, repeated or not) of at most MaxWidth entries
DocLevel1 ==
    Arrays(DocLeaves, MaxWidth) \cup Objects({SlashKey, NameA, BytesField}, DocLeaves, MaxWidth)

\* what the second level nests: scalars, links and the inside of a bytes shape
DocMid ==
    {<<Tok("null")>>, <<StrTok(CidTextA)>>, JsonLink(CidTextA), JsonLink(CidTextB),
     JsonObject(<<[k |-> BytesField, v |-> <<StrTok(Dm14)>>]>>),
     JsonObject(<<[k |-> NameA, v |-> <<StrTok(CidTextA)>>]>>)}
DocLevel2 == Arrays(DocMid, MaxWidth) \cup Objects({SlashKey, NameA}, DocMid, MaxWidth)

\* what the third level nests: reserved shapes, bare and inside a container
DocTop ==
    {<<Tok("null")>>, JsonLink(CidTextA), JsonLink(CidTextB), JsonBytes(Dm14),
     JsonArray(<<JsonLink(CidTextA)>>),
     JsonObject(<<[k |-> NameA, v |-> JsonLink(CidTextB)]>>)}
DocLevel3 == Arrays(DocTop, MaxWidth) \cup Objects({SlashKey, NameA}, DocTop, MaxWidth)

Documents == DocLeaves \cup DocLevel1 \cup DocLevel2 \cup DocLevel3

\* what may follow (or precede) a document: whitespace, a byte that starts no
\* token, a further value, and structural characters
TrailTokens == {Tok("ws"), Tok("junk"), Tok("true"), Tok("]"), Tok(","), Tok("{")}
Trailers == SeqsUpTo(TrailTokens, MaxTrail)

\* the document with whitespace after every token
Spaced(d) == [i \in 1..(2 * Len(d)) |-> IF i % 2 = 1 THEN d[(i + 1) \div 2] ELSE Tok("ws")]

\* the documents the trailing-data and truncation inputs are built from
EdgeDocs == DocLeaves \cup DocTop \cup {Spaced(d) : d \in DocTop}

\* a document, possibly after whitespace, followed by a trailer
TrailedDocs ==
    {lead \o d \o trail : lead \in {<<>>, <<Tok("ws")>>}, d \in EdgeDocs, trail \in Trailers}

\* a proper prefix of a document, followed by a trailer
TruncatedDocs ==
    UNION {{SubSeq(d, 1, n) \o trail : n \in 0..(Len(d) - 1), trail \in Trailers} :
             d \in DocLeaves \cup DocTop}

\* integer literals around the ends of i64 and u64, and -i128::MIN
NumberTexts ==
    {<<"-", "1", "1", "9", "5", "9", "0", "3", "0", "3", "0", "6", "1", "1", "2", "4", "7", "1", "7", "3", "2">>,
     <<"-", "9", "2", "2", "3", "3", "7", "2", "0", "3", "6", "8", "5", "4", "7", "7", "5", "8", "0", "9">>,
     <<"-", "9", "2", "2", "3", "3", "7", "2", "0", "3", "6", "8", "5", "4", "7", "7", "5", "8", "0", "8">>,
     <<"-", "1", "8", "4", "4", "6", "7", "4", "4", "0", "7", "3", "7", "0", "9", "5", "5", "1", "6", "1", "5">>,
     <<"-", "1", "8", "4", "4", "6", "7", "4", "4", "0", "7", "3", "7", "0", "9", "5", "5", "1", "6", "1", "6">>,
     <<"-", "9", "2", "2", "3", "3", "7", "2", "0", "3", "6", "8", "5", "4", "7", "7", "6", "8", "3", "3">>,
     <<"-", "1", "7", "0", "1", "4", "1", "1", "8", "3", "4", "6", "0", "4", "6", "9", "2", "3", "1", "7", "3", "1", "6", "8", "7", "3", "0", "3", "7", "1", "5", "8", "8", "4", "1", "0", "5", "7", "2", "8">>,
     <<"1", "8", "4", "4", "6", "7", "4", "4", "0", "7", "3", "7", "0", "9", "5", "5", "1", "6", "1", "5">>,
     <<"1", "8", "4", "4", "6", "7", "4", "4", "0", "7", "3", "7", "0", "9", "5", "5", "1", "6", "1", "6">>}
NumberDocs == {<<NumTok(t)>> : t \in NumberTexts} \cup {JsonArray(<<<<NumTok(t)>>>>) : t \in NumberTexts}

\* text that is no base64: the last character is outside the alphabet
BadBase64 == <<"d", "m", "1", "*">>

\* values under "/" that are neither the text of a CID nor a bytes object
BadReserved ==
    {<<Tok("true")>>, <<NumTok(<<"7">>)>>, JsonArray(<<>>), <<StrTok(Dm14)>>,
     JsonObject(<<>>),
     JsonObject(<<[k |-> NameA, v |-> <<StrTok(Dm14)>>]>>),
     JsonObject(<<[k |-> BytesField, v |-> <<NumTok(<<"7">>)>>]>>),
     JsonObject(<<[k |-> BytesField, v |-> <<Tok("null")>>]>>),
     JsonObject(<<[k |-> BytesField, v |-> JsonArray(<<<<StrTok(Dm14)>>>>)]>>),
     JsonObject(<<[k |-> BytesField, v |-> <<StrTok(BadBase64)>>]>>)}

\* objects with such a value under a first key "/", alone, before another
\* entry, and inside an array
ReservedDocs ==
    {JsonObject(<<[k |-> SlashKey, v |-> x]>>) : x \in BadReserved}
    \cup {JsonObject(<<[k |-> SlashKey, v |-> x], [k |-> NameA, v |-> <<Tok("null")>>]>>) :
            x \in BadReserved}
    \cup {JsonArray(<<JsonObject(<<[k |-> SlashKey, v |-> x]>>)>>) : x \in BadReserved}

\* {"/": X} with X a bytes object that has a further key, after or before
\* "bytes"
BytesExtraDocs ==
    {JsonObject(<<[k |-> SlashKey,
                   v |-> JsonObject(<<[k |-> BytesField, v |-> <<StrTok(Dm14)>>],
                                      [k |-> NameA, v |-> <<Tok("null")>>]>>)]>>),
     JsonObject(<<[k |-> SlashKey,
                   v |-> JsonObject(<<[k |-> NameA, v |-> <<Tok("true")>>],
                                      [k |-> BytesField, v |-> <<StrTok(Dm14)>>]>>)]>>)}

\* objects whose first key is not "/" and in which a value cannot be decoded
FailingEntryDocs ==
    LET NotBool == JsonObject(<<[k |-> SlashKey, v |-> <<Tok("true")>>]>>)
        NotCidText == JsonObject(<<[k |-> SlashKey, v |-> <<StrTok(Dm14)>>]>>)
    IN {JsonObject(<<[k |-> NameA, v |-> x], [k |-> SlashKey, v |-> y]>>) :
           x, y \in {<<Tok("null")>>, NotBool, NotCidText}}

\* CID text where it is not a link: as a key, as an ordinary string, under a
\* "/" that is not the first key, next to a link and next to bytes
LinkDecoyDocs ==
    {JsonObject(<<[k |-> CidTextA, v |-> <<StrTok(CidTextA)>>]>>),
     JsonArray(<<<<StrTok(CidTextA)>>, JsonLink(CidTextB), <<NumTok(<<"7">>)>>>>),
     JsonObject(<<[k |-> CidTextA, v |-> JsonLink(CidTextA)],
                  [k |-> SlashKey, v |-> <<StrTok(CidTextB)>>]>>),
     JsonArray(<<JsonBytes(Dm14), <<StrTok(CidTextA)>>>>),
     \* a link followed by a reserved shape that is neither a link nor bytes
     JsonArray(<<JsonLink(CidTextA),
                 JsonObject(<<[k |-> SlashKey, v |-> <<Tok("true")>>]>>)>>)}

WireInputs ==
    Documents \cup TrailedDocs \cup TruncatedDocs \cup NumberDocs \cup ReservedDocs
    \cup BytesExtraDocs \cup FailingEntryDocs \cup LinkDecoyDocs

(***************************************************************************)
(* Values for the encoder, each with the type it has in the program.       *)
(***************************************************************************)
Bytes3 == <<118, 109, 120>>
\* 2^64, an integer of Ipld's 128-bit range beyond u64
TwoTo64 == <<0, 0, 0, 0, 1>>

IpldLeaves ==
    {VNull, VBool(TRUE), VInt(FALSE, <<7>>), VInt(TRUE, <<7>>), VInt(FALSE, TwoTo64),
     VFloat("finite", FALSE, <<15>>, 1), VStr(NameA), VStr(CidTextA), VBytes(Bytes3),
     VLink(CidA)}

MapKeys == {SlashKey, NameA, <<"b">>}

\* the keys of D in BTreeMap order
KeySeq(D) ==
    CHOOSE ks \in [1..Cardinality(D) -> D] :
        \A i, j \in 1..Cardinality(D) : i < j => StrLess(ks[i], ks[j])

Lists(S, n) == {VList(items) : items \in SeqsUpTo(S, n)}
\* every BTreeMap of at most n entries with keys in K and values in S
Maps(K, S, n) ==
    UNION {{VMap([i \in 1..Cardinality(D) |-> [k |-> KeySeq(D)[i], v |-> f[KeySeq(D)[i]]]]) :
              f \in [D -> S]} : D \in {D \in SUBSET K : Cardinality(D) <= n}}

IpldFlat == Lists(IpldLeaves, MaxWidth) \cup Maps(MapKeys, IpldLeaves, MaxWidth)
IpldNested == Lists(IpldFlat, 1) \cup Maps({SlashKey, NameA}, IpldFlat, 1)
IpldValues == IpldLeaves \cup IpldFlat \cup IpldNested

Typed(T, v) == [T |-> T, v |-> v]

CidField == TStruct(<<[k |-> NameA, T |-> TCid]>>)
BytesField2 == TStruct(<<[k |-> NameA, T |-> TByteBuf], [k |-> <<"b">>, T |-> TBool]>>)

TypedValues ==
    {Typed(TCid, VLink(CidA)), Typed(TCid, VLink(CidB)),
     Typed(TByteBuf, VBytes(Bytes3)), Typed(TByteBuf, VBytes(<<>>)),
     Typed(TByteArray(3), VBytes(Bytes3)),
     Typed(TUnit, VUnit), Typed(TBool, VBool(FALSE)), Typed(TString, VStr(SlashKey)),
     Typed(TOption(TBool), VNone), Typed(TOption(TBool), VSome(VBool(TRUE))),
     Typed(TOption(TCid), VSome(VLink(CidA))),
     Typed(TOption(TOption(TBool)), VSome(VNone)),
     Typed(TVec(TCid), VList(<<VLink(CidA), VLink(CidB)>>)),
     Typed(TVec(TByteBuf), VList(<<VBytes(Bytes3), VBytes(<<>>)>>)),
     Typed(TBTreeMap(TByteBuf), VMap(<<[k |-> NameA, v |-> VBytes(Bytes3)]>>)),
     Typed(TBTreeMap(TCid), VMap(<<[k |-> NameA, v |-> VLink(CidA)]>>)),
     Typed(CidField, VStruct(<<[k |-> NameA, v |-> VLink(CidA)]>>)),
     Typed(BytesField2, VStruct(<<[k |-> NameA, v |-> VBytes(Bytes3)],
                                  [k |-> <<"b">>, v |-> VBool(TRUE)]>>))}

\* the ends of the integer types: -i64::MIN = 2^63, u64::MAX, -i128::MIN = 2^127,
\* i128::MAX, u128::MAX, and the magnitude 11959030306112471732 of tests/de.rs
I64MinMag == <<0, 0, 0, 32768>>
U64Max == <<65535, 65535, 65535, 65535>>
I128MinMag == <<0, 0, 0, 0, 0, 0, 0, 32768>>
I128Max == <<65535, 65535, 65535, 65535, 65535, 65535, 65535, 32767>>
U128Max == <<65535, 65535, 65535, 65535, 65535, 65535, 65535, 65535>>
LargeMag == <<692, 42487, 691, 42487>>

IntegerValues ==
    {Typed(TIpld, VInt(FALSE, <<>>)), Typed(TIpld, VInt(TRUE, I64MinMag)),
     Typed(TIpld, VInt(TRUE, <<1, 0, 0, 32768>>)),
     Typed(TIpld, VInt(FALSE, U64Max)), Typed(TIpld, VInt(TRUE, TwoTo64)),
     Typed(TIpld, VInt(TRUE, LargeMag)), Typed(TIpld, VInt(TRUE, I128MinMag)),
     Typed(TIpld, VInt(FALSE, I128Max)), Typed(TU128, VInt(FALSE, U128Max))}

\* floats: 1.5 and 4000.5 (tests/ser.rs), NaN and the infinities; the
\* encoder treats f32 and f64 alike, so one kind of float stands for both
F15 == VFloat("finite", FALSE, <<15>>, 1)
NaN == VFloat("nan", FALSE, <<>>, 0)
PosInf == VFloat("inf", FALSE, <<>>, 0)
NegInf == VFloat("inf", TRUE, <<>>, 0)

FloatField == TStruct(<<[k |-> NameA, T |-> TF64], [k |-> <<"b">>, T |-> TBool]>>)
FloatPair == TTuple(<<[k |-> <<>>, T |-> TF64], [k |-> <<>>, T |-> TF64]>>)

\* non-finite floats at top level and in each kind of composite: sequence,
\* tuple, map, struct, optional, and nested twice
FloatValues ==
    {Typed(TF64, VFloat("finite", FALSE, <<40005>>, 1)), Typed(TF64, F15),
     Typed(TF64, NaN), Typed(TF64, PosInf), Typed(TF64, NegInf),
     Typed(TVec(TF64), VList(<<F15, NaN>>)), Typed(TVec(TF64), VList(<<NegInf, F15>>)),
     Typed(FloatPair, VList(<<F15, F15>>)), Typed(FloatPair, VList(<<F15, PosInf>>)),
     Typed(TBTreeMap(TF64), VMap(<<[k |-> NameA, v |-> F15], [k |-> <<"b">>, v |-> PosInf]>>)),
     Typed(FloatField, VStruct(<<[k |-> NameA, v |-> NaN], [k |-> <<"b">>, v |-> VBool(TRUE)]>>)),
     Typed(FloatField, VStruct(<<[k |-> NameA, v |-> F15], [k |-> <<"b">>, v |-> VBool(TRUE)]>>)),
     Typed(TOption(TF64), VSome(NaN)), Typed(TOption(TF64), VSome(F15)),
     Typed(TVec(TBTreeMap(TVec(TF64))),
           VList(<<VMap(<<[k |-> NameA, v |-> VList(<<F15, NegInf>>)]>>)>>)),
     Typed(TIpld, VList(<<VInt(FALSE, <<7>>), NaN>>)),
     Typed(TIpld, VMap(<<[k |-> NameA, v |-> VLink(CidA)], [k |-> <<"b">>, v |-> NaN]>>))}

\* enum E { V(f64, f64), W(ByteBuf) }, W's payload asked for as a tuple
\* variant of one field (a hand-written impl, as Cid's is)
EnumE ==
    TEnum(<<"E">>, <<[name |-> <<"V">>, fields |-> FloatPair.fields],
                     [name |-> <<"W">>, fields |-> <<[k |-> <<>>, T |-> TByteBuf]>>]>>)
\* enums that use the marker as a name without being Cid's request
EnumMarked ==
    TEnum(CID_SERDE_PRIVATE_IDENTIFIER,
          <<[name |-> NameA, fields |-> <<>>],
            [name |-> CID_SERDE_PRIVATE_IDENTIFIER,
             fields |-> <<[k |-> <<>>, T |-> TByteBuf]>>]>>)
EnumMarkedPair ==
    TEnum(CID_SERDE_PRIVATE_IDENTIFIER,
          <<[name |-> CID_SERDE_PRIVATE_IDENTIFIER,
             fields |-> <<[k |-> <<>>, T |-> TByteBuf], [k |-> <<>>, T |-> TBool]>>]>>)
EnumVariantMarked ==
    TEnum(<<"E">>, <<[name |-> CID_SERDE_PRIVATE_IDENTIFIER,
                      fields |-> <<[k |-> <<>>, T |-> TByteBuf]>>]>>)

\* bytes that are no CID
NotCid == <<0, 1>>

\* tagged unions (tuple variants): ordinary ones, with a payload of one field
\* of CID bytes, with the marker in part of the request, with a non-finite
\* float among the fields, and Cid's own request with a payload that is no CID
TaggedValues ==
    {Typed(EnumE, VTupleVariant(<<"E">>, 0, <<"V">>, <<F15, F15>>)),
     Typed(EnumE, VTupleVariant(<<"E">>, 0, <<"V">>, <<F15, NaN>>)),
     Typed(EnumE, VTupleVariant(<<"E">>, 0, <<"V">>, <<PosInf, F15>>)),
     Typed(EnumE, VTupleVariant(<<"E">>, 1, <<"W">>, <<VBytes(CidA)>>)),
     Typed(EnumE, VTupleVariant(<<"E">>, 1, <<"W">>, <<VBytes(NotCid)>>)),
     Typed(EnumMarked, VTupleVariant(CID_SERDE_PRIVATE_IDENTIFIER, 1,
                                     CID_SERDE_PRIVATE_IDENTIFIER, <<VBytes(CidA)>>)),
     Typed(EnumMarkedPair, VTupleVariant(CID_SERDE_PRIVATE_IDENTIFIER, 0,
                                         CID_SERDE_PRIVATE_IDENTIFIER,
                                         <<VBytes(CidA), VBool(TRUE)>>)),
     Typed(EnumVariantMarked, VTupleVariant(<<"E">>, 0, CID_SERDE_PRIVATE_IDENTIFIER,
                                            <<VBytes(CidA)>>)),
     Typed(TVec(EnumE), VList(<<VTupleVariant(<<"E">>, 0, <<"V">>, <<NaN, F15>>)>>)),
     Typed(TCid, VTupleVariant(CID_SERDE_PRIVATE_IDENTIFIER, 0,
                               CID_SERDE_PRIVATE_IDENTIFIER, <<VBytes(NotCid)>>)),
     Typed(TCid, VTupleVariant(CID_SERDE_PRIVATE_IDENTIFIER, 0,
                               CID_SERDE_PRIVATE_IDENTIFIER, <<VStr(CidTextA)>>))}

Encodables ==
    {Typed(TIpld, v) : v \in IpldValues} \cup TypedValues \cup IntegerValues
    \cup FloatValues \cup TaggedValues

\* the typed requests: where reserved shapes are asked for by type
TypedTargets ==
    {TCid, TByteBuf, TByteArray(3), TVec(TCid), TBTreeMap(TCid), TBTreeMap(TByteBuf),
     TOption(TCid), CidField}

Request(buf, T) == [buf |-> buf, T |-> T]

\* typed requests that reach a reserved shape through a newtype struct or
\* the payload of a tagged union
NestedRequests ==
    {Request(JsonLink(CidTextA), TNewtype(TCid)),
     Request(JsonBytes(Dm14), TNewtype(TByteBuf)),
     Request(JsonArray(<<JsonLink(CidTextB)>>), TVec(TNewtype(TCid))),
     Request(JsonLink(CidTextA), TNewtype(TOption(TCid))),
     Request(<<Tok("null")>>, TNewtype(TCid)),
     Request(JsonLink(CidTextA), TOption(TNewtype(TCid))),
     Request(JsonObject(<<[k |-> <<"W">>, v |-> JsonArray(<<JsonBytes(Dm14)>>)]>>), EnumE),
     Request(JsonObject(<<[k |-> <<"W">>, v |-> JsonArray(<<JsonLink(CidTextA)>>)]>>), EnumE)}

\* from_slice is asked for a generic value on every input, and for the typed
\* targets on the documents that nest reserved shapes
SliceRequests ==
    {Request(buf, TIpld) : buf \in WireInputs}
    \cup {Request(buf, T) : buf \in DocLeaves \cup DocLevel2 \cup DocLevel3, T \in TypedTargets}
    \cup NestedRequests

\* the codec decodes whole, trailed and cut documents and the bad reserved
\* shapes, and encodes the typed values
CodecDocs ==
    DocLeaves \cup DocTop \cup ReservedDocs
    \cup {d \o <<Tok("true")>> : d \in DocTop}
    \cup {SubSeq(d, 1, Len(d) - 1) : d \in DocTop}
    \cup {<<Tok("junk")>>, <<Tok("{"), Tok(",")>>}
CodecRequests == {Request(buf, T) : buf \in CodecDocs, T \in {TIpld, TCid, TByteBuf}}
CodecValues == TypedValues \cup IntegerValues \cup FloatValues \cup TaggedValues

\* from_reader reads the edge inputs; the reader may fail once they are read
ReaderRequests ==
    {Request(buf, T) : buf \in TrailedDocs \cup TruncatedDocs, T \in {TIpld, TCid, TByteBuf}}

(***************************************************************************)
(* The state machine: a behaviour is one call of the library, and for      *)
(* to_vec also the decoding of the bytes it returned.                      *)
(***************************************************************************)
VARIABLES
    call,      \* the function called: "none" before the call
    value,     \* the value handed to the encoder
    target,    \* the type of value, or the type asked of the decoder
    encoded,   \* what to_vec returned
    stream,    \* what to_writer returned, with the writer's contents
    input,     \* the source handed to the decoder
    decoded,   \* what from_slice / from_reader returned
    found      \* what links returned

vars == <<call, value, target, encoded, stream, input, decoded, found>>

NoResult == [st |-> "none"]

Init ==
    /\ call = "none"
    /\ value = VNull
    /\ target = TIpld
    /\ encoded = NoResult
    /\ stream = NoResult
    /\ input = SliceSource(<<>>)
    /\ decoded = NoResult
    /\ found = NoResult

\* to_vec(&value)
ToVec ==
    /\ call = "none"
    /\ \E e \in Encodables :
          /\ value' = e.v
          /\ target' = e.T
          /\ encoded' = to_vec(e.v)
    /\ call' = "to_vec"
    /\ UNCHANGED <<stream, input, decoded, found>>

\* to_writer(writer, &value), the writer empty before the call
ToWriter ==
    /\ call = "none"
    /\ \E e \in Encodables :
          /\ value' = e.v
          /\ target' = e.T
          /\ stream' = to_writer(<<>>, e.v)
    /\ call' = "to_writer"
    /\ UNCHANGED <<encoded, input, decoded, found>>

\* from_slice(&bytes) on the bytes to_vec returned, asking for the type of
\* the value encoded
RoundTrip ==
    /\ call = "to_vec"
    /\ encoded.st = "ok"
    /\ input' = SliceSource(encoded.bytes)
    /\ decoded' = from_slice(encoded.bytes, target)
    /\ call' = "round_trip"
    /\ UNCHANGED <<value, target, encoded, stream, found>>

\* from_slice(buf)
FromSlice ==
    /\ call = "none"
    /\ \E r \in SliceRequests :
          /\ input' = SliceSource(r.buf)
          /\ target' = r.T
          /\ decoded' = from_slice(r.buf, r.T)
    /\ call' = "from_slice"
    /\ UNCHANGED <<value, encoded, stream, found>>

\* from_reader(reader)
FromReader ==
    /\ call = "none"
    /\ \E r \in ReaderRequests, ioerr \in BOOLEAN :
          /\ input' = ReaderSource(r.buf, ioerr)
          /\ target' = r.T
          /\ decoded' = from_reader(ReaderSource(r.buf, ioerr), r.T)
    /\ call' = "from_reader"
    /\ UNCHANGED <<value, encoded, stream, found>>

\* DagJsonCodec::decode(reader)
Decode ==
    /\ call = "none"
    /\ \E r \in CodecRequests, ioerr \in BOOLEAN :
          /\ input' = ReaderSource(r.buf, ioerr)
          /\ target' = r.T
          /\ decoded' = Codec_decode(ReaderSource(r.buf, ioerr), r.T)
    /\ call' = "decode"
    /\ UNCHANGED <<value, encoded, stream, found>>

\* DagJsonCodec::encode(writer, &data), the writer empty before the call
Encode ==
    /\ call = "none"
    /\ \E e \in CodecValues :
          /\ value' = e.v
          /\ target' = e.T
          /\ stream' = Codec_encode(<<>>, e.v)
    /\ call' = "encode"
    /\ UNCHANGED <<encoded, input, decoded, found>>

\* DagJsonCodec::links(data)
Links ==
    /\ call = "none"
    /\ \E buf \in WireInputs :
          /\ input' = SliceSource(buf)
          /\ found' = links(buf)
    /\ call' = "links"
    /\ UNCHANGED <<value, target, encoded, stream, decoded>>

Next ==
    ToVec \/ ToWriter \/ RoundTrip \/ FromSlice \/ FromReader \/ Links \/ Decode \/ Encode

Spec == Init /\ [][Next]_vars

(***************************************************************************)
(* Reference readings of the wire, independent of the Decoder: where a     *)
(* value ends, and the entries of an object.                               *)
(***************************************************************************)
IsPrefix(a, b) == Len(a) <= Len(b) /\ SubSeq(b, 1, Len(a)) = a

\* the tokens without whitespace
NoWs(toks) == SelectSeq(toks, LAMBDA t : t.t # "ws")

RECURSIVE BracketEnd(_, _, _)
\* the index after the bracket that closes nesting depth `depth`, 0 if none
BracketEnd(toks, i, depth) ==
    IF i > Len(toks) THEN 0
    ELSE IF toks[i].t \in {"[", "{"} THEN BracketEnd(toks, i + 1, depth + 1)
    ELSE IF toks[i].t \in {"]", "}"}
         THEN (IF depth = 1 THEN i + 1 ELSE BracketEnd(toks, i + 1, depth - 1))
    ELSE BracketEnd(toks, i + 1, depth)

\* the index after the value that starts at p, 0 if none starts there
ValueEnd(toks, p) ==
    IF p > Len(toks) \/ p < 1 THEN 0
    ELSE IF toks[p].t \in {"null", "true", "false", "num", "str"} THEN p + 1
    ELSE IF toks[p].t \in {"[", "{"} THEN BracketEnd(toks, p + 1, 1)
    ELSE 0

RECURSIVE EntriesFrom(_, _)
\* the entries [k, v] of the object whose first key, if any, is at p
EntriesFrom(toks, p) ==
    IF p + 2 > Len(toks) \/ toks[p].t # "str" THEN <<>>
    ELSE LET e == ValueEnd(toks, p + 2)
         IN IF e = 0 THEN <<>>
            ELSE <<[k |-> toks[p].s, v |-> SubSeq(toks, p + 2, e - 1)]>>
                 \o (IF e <= Len(toks) /\ toks[e].t = "," THEN EntriesFrom(toks, e + 1)
                     ELSE <<>>)

RECURSIVE ItemsFrom(_, _)
\* the items of the array whose first item, if any, is at p
ItemsFrom(toks, p) ==
    LET e == ValueEnd(toks, p)
    IN IF e = 0 THEN <<>>
       ELSE <<SubSeq(toks, p, e - 1)>>
            \o (IF e <= Len(toks) /\ toks[e].t = "," THEN ItemsFrom(toks, e + 1) ELSE <<>>)

\* the whole input is one array, written without whitespace
IsArrayDoc(toks) == toks # <<>> /\ toks = JsonArray(ItemsFrom(toks, 2))

\* the whole input is one object, written without whitespace
IsObjectDoc(toks) == toks # <<>> /\ toks = JsonObject(EntriesFrom(toks, 2))

DistinctKeys(entries) ==
    \A i, j \in 1..Len(entries) : entries[i].k = entries[j].k => i = j

RECURSIVE Rendering(_)
\* the DAG-JSON text of a value: bytes and CIDs as their reserved maps
Rendering(v) ==
    CASE v.kind \in {"Null", "None", "Unit"} -> <<Tok("null")>>
      [] v.kind = "Bool" -> <<Tok(IF v.b THEN "true" ELSE "false")>>
      [] v.kind = "Integer" -> <<NumTok(IntText(v.neg, v.mag))>>
      [] v.kind = "Float" -> <<NumTok(FloatText(v.neg, v.mant, v.scale))>>
      [] v.kind = "String" -> <<StrTok(v.s)>>
      [] v.kind = "Bytes" -> JsonBytes(Base64Encode(v.bytes))
      [] v.kind = "Link" -> JsonLink(CidToString(v.cid))
      [] v.kind = "Some" -> Rendering(v.v)
      [] v.kind = "List" -> JsonArray([i \in 1..Len(v.items) |-> Rendering(v.items[i])])
      [] v.kind = "Map" ->
            JsonObject([i \in 1..Len(v.entries) |->
                          [k |-> v.entries[i].k, v |-> Rendering(v.entries[i].v)]])
      [] v.kind = "Struct" ->
            JsonObject([i \in 1..Len(v.fields) |->
                          [k |-> v.fields[i].k, v |-> Rendering(v.fields[i].v)]])
      [] v.kind = "TupleVariant" ->
            JsonObject(<<[k |-> v.variant,
                          v |-> JsonArray([i \in 1..Len(v.fields) |-> Rendering(v.fields[i])])]>>)

\* the tagged union is the request Cid's Serialize impl makes
IsCidRequest(v) ==
    /\ v.kind = "TupleVariant"
    /\ v.name = CID_SERDE_PRIVATE_IDENTIFIER
    /\ v.index = 0
    /\ v.variant = CID_SERDE_PRIVATE_IDENTIFIER
    /\ Len(v.fields) = 1

RECURSIVE HasLink(_)
\* the value holds a CID (or a request made as Cid makes it) somewhere
HasLink(v) ==
    CASE v.kind = "Link" -> TRUE
      [] v.kind = "Some" -> HasLink(v.v)
      [] v.kind = "List" -> \E i \in 1..Len(v.items) : HasLink(v.items[i])
      [] v.kind = "Map" -> \E i \in 1..Len(v.entries) : HasLink(v.entries[i].v)
      [] v.kind = "Struct" -> \E i \in 1..Len(v.fields) : HasLink(v.fields[i].v)
      [] v.kind = "TupleVariant" ->
            IsCidRequest(v) \/ \E i \in 1..Len(v.fields) : HasLink(v.fields[i])
      [] OTHER -> FALSE

RECURSIVE HasNonFinite(_)
\* the value holds NaN or an infinity somewhere
HasNonFinite(v) ==
    CASE v.kind = "Float" -> v.cls # "finite"
      [] v.kind = "Some" -> HasNonFinite(v.v)
      [] v.kind = "List" -> \E i \in 1..Len(v.items) : HasNonFinite(v.items[i])
      [] v.kind = "Map" -> \E i \in 1..Len(v.entries) : HasNonFinite(v.entries[i].v)
      [] v.kind = "Struct" -> \E i \in 1..Len(v.fields) : HasNonFinite(v.fields[i].v)
      [] v.kind = "TupleVariant" -> \E i \in 1..Len(v.fields) : HasNonFinite(v.fields[i])
      [] OTHER -> FALSE

RECURSIVE ScanLinks(_, _)
\* the CIDs of the reserved link shapes { "/" : "<CID text>" } met from token
\* i on, in the order of the text
ScanLinks(toks, i) ==
    IF i > Len(toks) THEN <<>>
    ELSE IF /\ i + 4 <= Len(toks)
            /\ toks[i].t = "{" /\ toks[i + 1] = StrTok(SlashKey) /\ toks[i + 2].t = ":"
            /\ toks[i + 3].t = "str" /\ toks[i + 4].t = "}"
            /\ CidFromText(toks[i + 3].s).ok
    THEN <<CidFromText(toks[i + 3].s).cid>> \o ScanLinks(toks, i + 5)
    ELSE ScanLinks(toks, i + 1)

(***************************************************************************)
(* Properties.                                                             *)
(***************************************************************************)

\* C1: every value of the supported shapes encodes with to_vec, and
\* from_slice on the bytes succeeds and gives the value back.
C1_RoundTrip ==
    /\ call = "to_vec" => encoded.st = "ok"
    /\ call = "round_trip" => decoded.st = "ok" /\ decoded.val = value

\* the reserved link shapes of the two CIDs, and the CID each one names
LinkDocs == {JsonLink(CidTextA), JsonLink(CidTextB)}
LinkOf(d) == IF d = JsonLink(CidTextA) THEN CidA ELSE CidB

\* C2: an object whose only key is "/" over valid CID text decodes as the
\* link to that CID, asked for generically or as a CID, at top level, as an
\* array element and as a map value.
C2_ReservedLink ==
    call = "from_slice" =>
        /\ (target \in {TIpld, TCid} /\ input.toks \in LinkDocs)
              => decoded.st = "ok" /\ decoded.val = VLink(LinkOf(input.toks))
        /\ (target \in {TIpld, TVec(TCid)} /\ IsArrayDoc(input.toks))
              => LET items == ItemsFrom(input.toks, 2)
                 IN (\A i \in 1..Len(items) : items[i] \in LinkDocs)
                       => /\ decoded.st = "ok"
                          /\ decoded.val = VList([i \in 1..Len(items) |-> VLink(LinkOf(items[i]))])
        /\ (target \in {TIpld, TBTreeMap(TCid), CidField} /\ IsObjectDoc(input.toks))
              => LET entries == EntriesFrom(input.toks, 2)
                 IN (Len(entries) = 1 /\ entries[1].k = NameA /\ entries[1].v \in LinkDocs)
                       => /\ decoded.st = "ok"
                          /\ decoded.val =
                                (IF target = CidField
                                 THEN VStruct(<<[k |-> NameA, v |-> VLink(LinkOf(entries[1].v))]>>)
                                 ELSE VMap(<<[k |-> NameA, v |-> VLink(LinkOf(entries[1].v))]>>))

\* C2 happens: a link nested as a map value has been decoded generically
C2_Witness ==
    /\ call = "from_slice"
    /\ target = TIpld
    /\ input.toks = JsonObject(<<[k |-> NameA, v |-> JsonLink(CidTextB)]>>)
    /\ decoded.st = "ok"
    /\ decoded.val = VMap(<<[k |-> NameA, v |-> VLink(CidB)]>>)

\* C3: under a generic decode, an object with distinct keys in which "/" is
\* not the first key is returned as a map with every entry of the source; the
\* value under "/" is what that value decodes to on its own, a string staying
\* a string.
C3_SlashLater ==
    (call = "from_slice" /\ target = TIpld /\ IsObjectDoc(input.toks)) =>
        LET entries == EntriesFrom(input.toks, 2)
        IN (/\ Len(entries) >= 2
            /\ entries[1].k # SlashKey
            /\ HasKey(entries, SlashKey)
            /\ DistinctKeys(entries)
            /\ \A i \in 1..Len(entries) : from_slice(entries[i].v, TIpld).st = "ok")
           => /\ decoded.st = "ok"
              /\ decoded.val.kind = "Map"
              /\ Len(decoded.val.entries) = Len(entries)
              /\ \A i \in 1..Len(entries) :
                    \E j \in 1..Len(decoded.val.entries) :
                       /\ decoded.val.entries[j].k = entries[i].k
                       /\ decoded.val.entries[j].v = from_slice(entries[i].v, TIpld).val
                       /\ (entries[i].k = SlashKey /\ entries[i].v[1].t = "str")
                             => decoded.val.entries[j].v = VStr(entries[i].v[1].s)

\* C3 happens: CID text under a later "/" has been kept as a string
C3_Witness ==
    /\ call = "from_slice"
    /\ target = TIpld
    /\ input.toks = JsonObject(<<[k |-> NameA, v |-> <<Tok("null")>>],
                                 [k |-> SlashKey, v |-> <<StrTok(CidTextA)>>]>>)
    /\ decoded.st = "ok"
    /\ decoded.val = VMap(<<[k |-> SlashKey, v |-> VStr(CidTextA)],
                            [k |-> NameA, v |-> VNull]>>)

\* C4: under a generic decode, an object whose first key is "/" and which
\* has a further key is an error, whatever the values and the further keys.
C4_SlashFirstWithMore ==
    (call = "from_slice" /\ target = TIpld /\ IsObjectDoc(input.toks)) =>
        LET entries == EntriesFrom(input.toks, 2)
        IN (Len(entries) >= 2 /\ entries[1].k = SlashKey) => decoded.st = "err"

\* C4 happens: a link shape with a second key has been refused
C4_Witness ==
    /\ call = "from_slice"
    /\ target = TIpld
    /\ input.toks = JsonObject(<<[k |-> SlashKey, v |-> <<StrTok(CidTextA)>>],
                                 [k |-> NameA, v |-> <<Tok("null")>>]>>)
    /\ decoded.st = "err"
    /\ decoded.err.kind = "Message"

\* C5: {"/": {"bytes": "dm14"}} decodes to the bytes 118, 109, 120, asked for
\* generically, as a byte buffer or as a byte array of that size, at top level
\* and as a map value.
C5_ReservedBytes ==
    call = "from_slice" =>
        /\ input.toks = JsonBytes(Dm14) /\ target \in {TIpld, TByteBuf, TByteArray(3)}
              => decoded.st = "ok" /\ decoded.val = VBytes(<<118, 109, 120>>)
        /\ input.toks = JsonObject(<<[k |-> NameA, v |-> JsonBytes(Dm14)]>>)
           /\ target \in {TIpld, TBTreeMap(TByteBuf)}
              => /\ decoded.st = "ok"
                 /\ decoded.val = VMap(<<[k |-> NameA, v |-> VBytes(<<118, 109, 120>>)]>>)

\* C5 happens: the bytes shape has been decoded into a byte array
C5_Witness ==
    /\ call = "from_slice"
    /\ target = TByteArray(3)
    /\ input.toks = JsonBytes(Dm14)
    /\ decoded.st = "ok"
    /\ decoded.val = VBytes(<<118, 109, 120>>)

\* C6: whatever the encoder writes for a value of finite floats is the start
\* of the value's DAG-JSON text, in which every byte string, at any depth, is
\* the map {"/":{"bytes":"<base64>"}}; a value without CIDs is written in full.
C6_BytesReservedMap ==
    /\ (call = "to_vec" /\ ~HasNonFinite(value) /\ encoded.st = "ok")
          => encoded.bytes = Rendering(value)
    /\ (call = "to_vec" /\ ~HasNonFinite(value) /\ ~HasLink(value)) => encoded.st = "ok"
    /\ (call = "to_writer" /\ ~HasNonFinite(value))
          => IsPrefix(stream.writer, Rendering(value))
    /\ (call = "to_writer" /\ ~HasNonFinite(value) /\ ~HasLink(value))
          => stream.st = "ok" /\ stream.writer = Rendering(value)

\* C6 happens: bytes nested in a list in a map have been encoded
C6_Witness ==
    /\ call = "to_vec"
    /\ value = VMap(<<[k |-> NameA, v |-> VList(<<VBytes(Bytes3)>>)]>>)
    /\ encoded.st = "ok"
    /\ encoded.bytes = JsonObject(<<[k |-> NameA, v |-> JsonArray(<<JsonBytes(Dm14)>>)]>>)

\* C7: encoding a CID, at top level or as the field of a struct, succeeds
\* and gives the value's text with {"/":"<CID text>"} at the CID's position.
C7_CidEncodes ==
    (call = "to_vec" /\ (value.kind = "Link" \/ target = CidField))
        => encoded.st = "ok" /\ encoded.bytes = Rendering(value)

\* C8: links returns the CIDs of the reserved link shapes of the document,
\* repeated ones included, in the order of the text; it succeeds on every
\* array of links, bytes and containers of links.
C8_LinksInOrder ==
    call = "links" =>
        /\ found.st = "ok" => found.links = ScanLinks(NoWs(input.toks), 1)
        /\ (/\ IsArrayDoc(input.toks)
            /\ \A i \in 1..Len(ItemsFrom(input.toks, 2)) :
                  ItemsFrom(input.toks, 2)[i] \in DocTop)
              => found.st = "ok"

\* C8 happens: the same CID, once inside an object and once as an array
\* element, has been returned twice
C8_Witness ==
    /\ call = "links"
    /\ input.toks = JsonArray(<<JsonObject(<<[k |-> NameA, v |-> JsonLink(CidTextB)]>>),
                                JsonLink(CidTextB)>>)
    /\ found.st = "ok"
    /\ found.links = <<CidB, CidB>>

\* the documents that are one value of the target's type
WellFormed(T) ==
    CASE T = TIpld -> DocLeaves \cup DocTop
      [] T = TCid -> {JsonLink(CidTextA), JsonLink(CidTextB)}
      [] T = TByteBuf -> {JsonBytes(Dm14)}
      [] OTHER -> {}

\* the index after the top-level value of the input, 0 if there is none
TopEnd == ValueEnd(input.toks, SkipWs(input.toks, 1))
\* the tokens of the top-level value, and what follows it
TopValue == NoWs(SubSeq(input.toks, SkipWs(input.toks, 1), TopEnd - 1))
Rest == SubSeq(input.toks, TopEnd, Len(input.toks))

OnlyWs(rest) == \A i \in 1..Len(rest) : rest[i].t = "ws"

\* C9: on a source that can be read to its end, from_slice and from_reader
\* fail with TrailingData when something other than whitespace follows the
\* well-formed top-level value, and succeed otherwise.
C9_TrailingData ==
    (/\ call \in {"from_slice", "from_reader"}
     /\ ~input.ioerr
     /\ TopEnd # 0
     /\ TopValue \in WellFormed(target)) =>
        IF OnlyWs(Rest) THEN decoded.st = "ok"
        ELSE decoded.st = "err" /\ decoded.err.kind = "TrailingData"

\* C9 happens: from_reader has refused a link followed by a further token
C9_Witness ==
    /\ call = "from_reader"
    /\ ~input.ioerr
    /\ target = TCid
    /\ input.toks = JsonLink(CidTextA) \o <<Tok("true")>>
    /\ decoded.st = "err"
    /\ decoded.err.kind = "TrailingData"

\* C10: TrailingData is returned only when the top-level value was decoded
\* and something other than whitespace follows it.
C10_TrailingDataOnly ==
    (/\ call \in {"from_slice", "from_reader"}
     /\ decoded.st = "err"
     /\ decoded.err.kind = "TrailingData") =>
        /\ TopEnd # 0
        /\ from_slice(SubSeq(input.toks, 1, TopEnd - 1), target).st = "ok"
        /\ ~OnlyWs(Rest)


(***************************************************************************)
(* C12: integers are written in full                                       *)
(***************************************************************************)
\* the text is a decimal numeral of the magnitude: digits only, no leading
\* zero, and the digits denote the magnitude
IsNumeralOf(text, mag) ==
    /\ Len(text) >= 1
    /\ \A i \in 1..Len(text) : IndexIn(DigitChars, text[i]) >= 0
    /\ Len(text) > 1 => text[1] # "0"
    /\ DigitsToMag(text, 1, <<>>) = mag

\* the one number token that is "-" (for a negative integer) and the numeral
IsIntegerText(out, v) ==
    /\ Len(out) = 1
    /\ out[1].t = "num"
    /\ Len(out[1].s) >= 1
    /\ v.neg <=> out[1].s[1] = "-"
    /\ IsNumeralOf(IF v.neg THEN Tail(out[1].s) ELSE out[1].s, v.mag)

I128MinText ==
    <<"-", "1", "7", "0", "1", "4", "1", "1", "8", "3", "4", "6", "0", "4", "6", "9", "2", "3", "1", "7", "3", "1", "6", "8", "7", "3", "0", "3", "7", "1", "5", "8", "8", "4", "1", "0", "5", "7", "2", "8">>

\* C12: an integer of up to 128 bits, signed or unsigned, is encoded as
\* exactly its decimal digits, with "-" before them when it is negative:
\* nothing is rounded, cut off or written with an exponent, and i128::MIN
\* gives -170141183460469231731687303715884105728.
C12_IntegerDigits ==
    /\ (call \in {"to_vec", "round_trip"} /\ value.kind = "Integer")
          => /\ encoded.st = "ok"
             /\ IsIntegerText(encoded.bytes, value)
             /\ value = VInt(TRUE, I128MinMag) => encoded.bytes = <<NumTok(I128MinText)>>
    /\ (call = "to_writer" /\ value.kind = "Integer")
          => stream.st = "ok" /\ IsIntegerText(stream.writer, value)

C12_Witness ==
    /\ call = "to_vec"
    /\ value = VInt(FALSE, U128Max)
    /\ encoded.st = "ok"
    /\ Len(encoded.bytes[1].s) = 39

(***************************************************************************)
(* C13: negative literals below i64::MIN                                   *)
(***************************************************************************)
\* the literals below i64::MIN among the inputs, each with the magnitude of
\* the f64 nearest to it (ties to even)
LargeNegatives ==
    {[text |-> <<"-", "1", "1", "9", "5", "9", "0", "3", "0", "3", "0", "6", "1", "1", "2", "4", "7", "1", "7", "3", "2">>,
      f64 |-> <<0, 42487, 691, 42487>>],
     [text |-> <<"-", "9", "2", "2", "3", "3", "7", "2", "0", "3", "6", "8", "5", "4", "7", "7", "5", "8", "0", "9">>,
      f64 |-> <<0, 0, 0, 32768>>],
     [text |-> <<"-", "1", "8", "4", "4", "6", "7", "4", "4", "0", "7", "3", "7", "0", "9", "5", "5", "1", "6", "1", "5">>,
      f64 |-> <<0, 0, 0, 0, 1>>],
     [text |-> <<"-", "1", "8", "4", "4", "6", "7", "4", "4", "0", "7", "3", "7", "0", "9", "5", "5", "1", "6", "1", "6">>,
      f64 |-> <<0, 0, 0, 0, 1>>],
     [text |-> <<"-", "9", "2", "2", "3", "3", "7", "2", "0", "3", "6", "8", "5", "4", "7", "7", "6", "8", "3", "3">>,
      f64 |-> <<2048, 0, 0, 32768>>],
     [text |-> <<"-", "1", "7", "0", "1", "4", "1", "1", "8", "3", "4", "6", "0", "4", "6", "9", "2", "3", "1", "7", "3", "1", "6", "8", "7", "3", "0", "3", "7", "1", "5", "8", "8", "4", "1", "0", "5", "7", "2", "8">>,
      f64 |-> <<0, 0, 0, 0, 0, 0, 0, 32768>>]}

\* the text is "-" and digits of a magnitude beyond 2^63
IsLargeNegative(text) ==
    /\ Len(text) >= 2
    /\ text[1] = "-"
    /\ \A i \in 2..Len(text) : IndexIn(DigitChars, text[i]) >= 0
    /\ ~FitsNegI64(DigitsToMag(Tail(text), 1, <<>>))

\* C13: a generic decode of a negative integer literal below i64::MIN
\* succeeds with a float, the float nearest to the number; it is never an
\* integer and never an error.
C13_LargeNegativeIsFloat ==
    (/\ call \in {"from_slice", "from_reader"}
     /\ target = TIpld
     /\ ~input.ioerr
     /\ Len(input.toks) = 1
     /\ input.toks[1].t = "num"
     /\ IsLargeNegative(input.toks[1].s))
       => /\ decoded.st = "ok"
          /\ decoded.val.kind = "Float"
          /\ decoded.val.cls = "finite"
          /\ decoded.val.neg
          /\ decoded.val.scale = 0
          /\ \E n \in LargeNegatives :
                n.text = input.toks[1].s /\ decoded.val.mant = n.f64

C13_Witness ==
    /\ call = "from_slice"
    /\ target = TIpld
    /\ input.toks = <<NumTok(CHOOSE t \in NumberTexts : Len(t) = 21 /\ t[2] = "1" /\ t[3] = "1")>>
    /\ decoded.st = "ok"
    /\ decoded.val = VFloat("finite", TRUE, <<0, 42487, 691, 42487>>, 0)


(***************************************************************************)
(* C11: non-finite floats                                                  *)
(***************************************************************************)
\* C11: a value that holds NaN or an infinity anywhere (top level, sequence,
\* tuple, map, struct, optional, tagged union) is refused by to_vec and
\* to_writer with an error; the finite floats 1.5 and 4000.5 are written
\* as the numbers 1.5 and 4000.5.
C11_NonFiniteRefused ==
    /\ (call = "to_vec" /\ HasNonFinite(value) /\ ~HasLink(value)) => encoded.st = "err"
    /\ (call = "to_writer" /\ HasNonFinite(value) /\ ~HasLink(value)) => stream.st = "err"
    /\ (call = "to_vec" /\ value = F15)
          => encoded.st = "ok" /\ encoded.bytes = <<NumTok(<<"1", ".", "5">>)>>
    /\ (call = "to_vec" /\ value = VFloat("finite", FALSE, <<40005>>, 1))
          => /\ encoded.st = "ok"
             /\ encoded.bytes = <<NumTok(<<"4", "0", "0", "0", ".", "5">>)>>

(***************************************************************************)
(* C14: tagged unions other than Cid's                                     *)
(***************************************************************************)
\* C14: a tagged union whose name is not the CID marker is written by the
\* JSON writer as {"<variant>":[<fields>]}, each field in its DAG-JSON text,
\* also when the payload is one field of CID bytes; what is written for it
\* is never a {"/": ...} map.
C14_OrdinaryTaggedUnion ==
    (/\ call \in {"to_vec", "round_trip"}
     /\ value.kind = "TupleVariant"
     /\ value.name # CID_SERDE_PRIVATE_IDENTIFIER
     /\ ~HasNonFinite(value))
       => /\ encoded.st = "ok"
          /\ Len(encoded.bytes) >= 6
          /\ SubSeq(encoded.bytes, 1, 4)
                = <<Tok("{"), StrTok(value.variant), Tok(":"), Tok("[")>>
          /\ SubSeq(encoded.bytes, 5, Len(encoded.bytes) - 2)
                = Joined([i \in 1..Len(value.fields) |-> Rendering(value.fields[i])], 1)
          /\ SubSeq(encoded.bytes, Len(encoded.bytes) - 1, Len(encoded.bytes))
                = <<Tok("]"), Tok("}")>>
          /\ encoded.bytes[2] # StrTok(SlashKey)

\* C14 happens: a payload of one field holding the bytes of a CID was written
\* under its tag
C14_Witness ==
    /\ call = "to_vec"
    /\ value = VTupleVariant(<<"E">>, 1, <<"W">>, <<VBytes(CidA)>>)
    /\ encoded.st = "ok"
    /\ encoded.bytes[2] = StrTok(<<"W">>)

(***************************************************************************)
(* C15: Cid's request with bytes that are no CID                           *)
(***************************************************************************)
\* C15: the request Cid makes, with bytes that do not parse as a CID, makes
\* to_vec and to_writer return the error "Invalid CID".
C15_InvalidCidError ==
    /\ (/\ call = "to_vec"
        /\ IsCidRequest(value)
        /\ value.fields[1].kind = "Bytes"
        /\ ~CidFromBytes(value.fields[1].bytes).ok)
          => encoded.st = "err" /\ encoded.err = "Invalid CID"
    /\ (/\ call = "to_writer"
        /\ IsCidRequest(value)
        /\ value.fields[1].kind = "Bytes"
        /\ ~CidFromBytes(value.fields[1].bytes).ok)
          => stream.st = "err" /\ stream.err = "Invalid CID"

(***************************************************************************)
(* C19: failures of nested values                                          *)
(***************************************************************************)
\* C19: when a nested value cannot be encoded (here: a non-finite float in
\* a sequence, map, struct, optional or the payload of a tagged union),
\* to_vec and to_writer do not report success.
C19_NestedFailurePropagates ==
    /\ (call \in {"to_vec", "round_trip"} /\ HasNonFinite(value)) => encoded.st # "ok"
    /\ (call = "to_writer" /\ HasNonFinite(value)) => stream.st # "ok"

(***************************************************************************)
(* C20: no output on failure                                               *)
(***************************************************************************)
\* C20: when encoding fails, to_vec returns no bytes and the stream given
\* to to_writer has received nothing.
C20_NoPartialOutput ==
    /\ (call = "to_vec" /\ encoded.st = "err") => encoded.bytes = <<>>
    /\ (call = "to_writer" /\ stream.st = "err") => stream.writer = <<>>


(***************************************************************************)
(* C16: a value under "/" that is no reserved value                        *)
(***************************************************************************)
\* the value (as tokens) is neither the text of a CID nor an object with a
\* "bytes" entry whose value is base64 text
IsBadReserved(v) ==
    \/ v[1].t \in {"null", "true", "false", "num", "["}
    \/ v[1].t = "str" /\ ~CidFromText(v[1].s).ok
    \/ /\ v[1].t = "{"
       /\ \/ \A i \in 1..Len(EntriesFrom(v, 2)) : EntriesFrom(v, 2)[i].k # BytesField
          \/ \E i \in 1..Len(EntriesFrom(v, 2)) :
                /\ EntriesFrom(v, 2)[i].k = BytesField
                /\ \/ EntriesFrom(v, 2)[i].v[1].t # "str"
                   \/ ~Base64Decode(EntriesFrom(v, 2)[i].v[1].s).ok

\* the value is {"bytes": "<text>"} with text that is no base64
IsBadBytes(v) ==
    /\ v[1].t = "{"
    /\ Len(EntriesFrom(v, 2)) = 1
    /\ EntriesFrom(v, 2)[1].k = BytesField
    /\ EntriesFrom(v, 2)[1].v[1].t = "str"
    /\ ~Base64Decode(EntriesFrom(v, 2)[1].v[1].s).ok

\* C16: a generic decode of an object whose first key is "/" is an error
\* when the value under "/" is neither the text of a CID nor a bytes object
\* with base64 text; for text that is no CID, and for bytes text that is no
\* base64, the error names the text; the result is never an ordinary map.
C16_BadReservedValue ==
    (/\ call \in {"from_slice", "from_reader"}
     /\ target = TIpld
     /\ ~input.ioerr
     /\ IsObjectDoc(input.toks)
     /\ Len(EntriesFrom(input.toks, 2)) >= 1
     /\ EntriesFrom(input.toks, 2)[1].k = SlashKey)
       => LET v == EntriesFrom(input.toks, 2)[1].v
          IN /\ IsBadReserved(v) => decoded.st = "err"
             /\ (v[1].t = "str" /\ ~CidFromText(v[1].s).ok)
                   => decoded.err.msg = "Invalid CID" /\ decoded.err.text = v[1].s
             /\ IsBadBytes(v)
                   => /\ decoded.err.msg = "Cannot base decode bytes"
                      /\ decoded.err.text = EntriesFrom(v, 2)[1].v[1].s
             /\ decoded.st = "ok" => decoded.val.kind \in {"Link", "Bytes"}

\* C16 happens: bytes text that is no base64 was refused by name
C16_Witness ==
    /\ call = "from_slice"
    /\ target = TIpld
    /\ input.toks = JsonObject(<<[k |-> SlashKey,
                                  v |-> JsonObject(<<[k |-> BytesField,
                                                      v |-> <<StrTok(BadBase64)>>]>>)]>>)
    /\ decoded.st = "err"
    /\ decoded.err.text = BadBase64


(***************************************************************************)
(* C17: a typed request that meets the other reserved shape                *)
(***************************************************************************)
\* C17: asking for a CID where the document holds {"/":{"bytes":"dm14"}} is
\* the error "Expected a CID", and asking for bytes where it holds the link
\* shape of a CID is the error "Expected bytes", at top level and inside a
\* sequence or map; no value is returned.
C17_WrongReservedShape ==
    (call \in {"from_slice", "from_reader"} /\ ~input.ioerr) =>
        /\ ((input.toks = JsonBytes(Dm14) /\ target \in {TCid, TOption(TCid)})
            \/ (input.toks = JsonArray(<<JsonBytes(Dm14)>>) /\ target = TVec(TCid))
            \/ (input.toks = JsonObject(<<[k |-> NameA, v |-> JsonBytes(Dm14)]>>)
                /\ target \in {TBTreeMap(TCid), CidField}))
              => /\ decoded.st = "err"
                 /\ decoded.err.msg = "Expected a CID"
                 /\ decoded.val = VNull
        /\ ((input.toks \in LinkDocs /\ target \in {TByteBuf, TByteArray(3)})
            \/ (\E d \in LinkDocs : input.toks = JsonObject(<<[k |-> NameA, v |-> d]>>)
                /\ target = TBTreeMap(TByteBuf)))
              => /\ decoded.st = "err"
                 /\ decoded.err.msg = "Expected bytes"
                 /\ decoded.val = VNull

\* C17 happens: a CID was asked of the bytes shape
C17_Witness ==
    /\ call = "from_slice"
    /\ target = TCid
    /\ input.toks = JsonBytes(Dm14)
    /\ decoded.st = "err"
    /\ decoded.err.msg = "Expected a CID"

(***************************************************************************)
(* C18: the decoder's abort paths                                          *)
(***************************************************************************)
\* C18: a generic decode (from_slice, from_reader) and links end, on every
\* input, with a value or with an error: the panic of ExtractLinks::visit_enum
\* for a tag other than the CID marker and the unreachable!() accessors of
\* CidDeserializer are not reached.
C18_NoAbort ==
    /\ (call \in {"from_slice", "from_reader"} /\ target = TIpld)
          => decoded.st \in {"ok", "err"}
    /\ call = "links" => found.st \in {"ok", "err"}

\* C18 happens: links has passed a CID through ExtractLinks::visit_enum
C18_Witness ==
    /\ call = "links"
    /\ input.toks = JsonArray(<<JsonLink(CidTextA), JsonLink(CidTextB)>>)
    /\ found.st = "ok"
    /\ found.links = <<CidA, CidB>>


(***************************************************************************)
(* C21: the kinds of CodecError                                            *)
(***************************************************************************)
\* the error was raised by this layer: a reserved shape it refused, or
\* trailing data
LayerFailure(e) ==
    \/ e.kind = "TrailingData"
    \/ e.msg \in {"Invalid CID", "Cannot base decode bytes", "Expected a CID", "Expected bytes"}

\* C21: a failure of Codec::decode or Links::links that this layer raised
\* (CID text that is no CID, bytes text that is no base64, the wrong
\* reserved shape, trailing data) is CodecError::Decode, a failure of
\* Codec::encode is CodecError::Encode, and a JSON syntax error is
\* CodecError::SerdeJson.
C21_CodecErrorKinds ==
    /\ (call = "decode" /\ decoded.st = "err" /\ LayerFailure(decoded.err))
          => decoded.err.codec = "Decode"
    /\ (call = "decode" /\ decoded.st = "err" /\ decoded.err.cat \in {"syntax", "eof"})
          => decoded.err.codec = "SerdeJson"
    /\ (call = "encode" /\ stream.st = "err") => stream.err.codec = "Encode"
    /\ (/\ call = "links"
        /\ input.toks \in {JsonObject(<<[k |-> SlashKey, v |-> <<StrTok(Dm14)>>]>>),
                           JsonObject(<<[k |-> SlashKey,
                                         v |-> JsonObject(<<[k |-> BytesField,
                                                             v |-> <<StrTok(BadBase64)>>]>>)]>>)})
          => found.st = "err" /\ found.kind = "Decode"
    /\ (call = "links" /\ input.toks = <<Tok("junk")>>)
          => found.st = "err" /\ found.kind = "SerdeJson"


(***************************************************************************)
(* C22: nested positions of typed targets                                  *)
(***************************************************************************)
\* C22: a CID or byte string of a typed target is decoded from its reserved
\* shape at every nested position as it is at top level: as the element of a
\* sequence, the value of a map, the field of a struct, the payload of an
\* Option, of a tagged union and of a newtype struct.
C22_NestedPositions ==
    call = "from_slice" =>
        /\ ((input.toks = JsonLink(CidTextA)
             /\ target \in {TCid, TOption(TCid), TNewtype(TCid), TOption(TNewtype(TCid))})
              => decoded.st = "ok")
        /\ (input.toks = JsonLink(CidTextA) /\ target = TNewtype(TCid))
              => decoded.val = VLink(CidA)
        /\ (input.toks = JsonArray(<<JsonLink(CidTextB)>>)
            /\ target \in {TVec(TCid), TVec(TNewtype(TCid))})
              => decoded.st = "ok" /\ decoded.val = VList(<<VLink(CidB)>>)
        /\ (input.toks = JsonObject(<<[k |-> NameA, v |-> JsonLink(CidTextA)]>>)
            /\ target \in {TBTreeMap(TCid), CidField})
              => decoded.st = "ok" /\ decoded.val.kind \in {"Map", "Struct"}
        /\ (input.toks = JsonBytes(Dm14) /\ target \in {TByteBuf, TNewtype(TByteBuf)})
              => decoded.st = "ok" /\ decoded.val = VBytes(Bytes3)
        /\ (input.toks = JsonObject(<<[k |-> <<"W">>, v |-> JsonArray(<<JsonBytes(Dm14)>>)]>>)
            /\ target = EnumE)
              => /\ decoded.st = "ok"
                 /\ decoded.val = VTupleVariant(<<"E">>, 1, <<"W">>, <<VBytes(Bytes3)>>)


(***************************************************************************)
(* C23: what is accepted as bytes                                          *)
(***************************************************************************)
\* C23: a generic decode of {"/": X} gives bytes only when X is an object
\* with the one key "bytes" and a string under it; X with a further key, or
\* X of another form such as an array holding a string, is an error.
C23_BytesShapeExact ==
    (/\ call = "from_slice"
     /\ target = TIpld
     /\ IsObjectDoc(input.toks)
     /\ Len(EntriesFrom(input.toks, 2)) = 1
     /\ EntriesFrom(input.toks, 2)[1].k = SlashKey)
       => LET X == EntriesFrom(input.toks, 2)[1].v
          IN /\ (decoded.st = "ok" /\ decoded.val.kind = "Bytes")
                   => /\ X[1].t = "{"
                      /\ Len(EntriesFrom(X, 2)) = 1
                      /\ EntriesFrom(X, 2)[1].k = BytesField
                      /\ EntriesFrom(X, 2)[1].v[1].t = "str"
             /\ (X[1].t = "[" \/ (X[1].t = "{" /\ Len(EntriesFrom(X, 2)) >= 2))
                   => decoded.st = "err"


(***************************************************************************)
(* C24: typed requests for a CID or for bytes                              *)
(***************************************************************************)
\* C24: a typed request for a CID or for raw bytes succeeds only on an object
\* whose first and only key is "/"; an object with "/" and another key,
\* before or after it, is rejected.
C24_TypedReservedOnlyKey ==
    (/\ call = "from_slice"
     /\ target \in {TCid, TByteBuf}
     /\ IsObjectDoc(input.toks)
     /\ decoded.st = "ok")
       => /\ Len(EntriesFrom(input.toks, 2)) = 1
          /\ EntriesFrom(input.toks, 2)[1].k = SlashKey


(***************************************************************************)
(* C25: the map handed on when the first key is not "/"                    *)
(***************************************************************************)
RECURSIVE FirstFailing(_, _)
FirstFailing(entries, i) ==
    IF i > Len(entries) THEN 0
    ELSE IF from_slice(entries[i].v, TIpld).st # "ok" THEN i
    ELSE FirstFailing(entries, i + 1)

\* C25: a generic decode of an object whose first key is not "/" hands on
\* exactly the entries of the source, in their order: the first key is there
\* once with the value that follows it, so is every later key, an empty
\* object is the empty map, a key met twice (the first included) is
\* reported, and the first value that fails is the one whose error comes
\* back.
C25_FirstKeyReinjected ==
    (/\ call = "from_slice"
     /\ target = TIpld
     /\ IsObjectDoc(input.toks)
     /\ ValueEnd(input.toks, 1) = Len(input.toks) + 1)
       => LET entries == EntriesFrom(input.toks, 2)
              bad == FirstFailing(entries, 1)
          IN (entries = <<>> \/ entries[1].k # SlashKey)
             => /\ entries = <<>> => (decoded.st = "ok" /\ decoded.val = VMap(<<>>))
                /\ (bad = 0 /\ DistinctKeys(entries))
                      => /\ decoded.st = "ok"
                         /\ decoded.val.kind = "Map"
                         /\ Len(decoded.val.entries) = Len(entries)
                         /\ \A i \in 1..Len(entries) :
                               \E j \in 1..Len(decoded.val.entries) :
                                  decoded.val.entries[j] =
                                     [k |-> entries[i].k,
                                      v |-> from_slice(entries[i].v, TIpld).val]
                /\ (bad = 0 /\ ~DistinctKeys(entries))
                      => /\ decoded.st = "err"
                         /\ decoded.err.msg = "Duplicate map key"
                /\ (bad # 0 /\ DistinctKeys(SubSeq(entries, 1, bad - 1)))
                      => /\ decoded.st = "err"
                         /\ decoded.err.msg = from_slice(entries[bad].v, TIpld).err.msg

C25_Witness ==
    /\ call = "from_slice"
    /\ target = TIpld
    /\ IsObjectDoc(input.toks)
    /\ Len(EntriesFrom(input.toks, 2)) = 2
    /\ EntriesFrom(input.toks, 2)[1].k = NameA
    /\ EntriesFrom(input.toks, 2)[2].k = SlashKey
    /\ EntriesFrom(input.toks, 2)[2].v[1].t = "null"
    /\ decoded.st = "ok"
    /\ Len(decoded.val.entries) = 2


(***************************************************************************)
(* C26: inputs and values free of reserved shapes                          *)
(***************************************************************************)
\* some object of the document has "/" as its first key
HasSlashFirst(toks) ==
    LET ts == NoWs(toks)
    IN \E i \in 1..(Len(ts) - 1) : ts[i].t = "{" /\ ts[i + 1] = StrTok(SlashKey)

RECURSIVE HasBytes(_)
HasBytes(v) ==
    CASE v.kind = "Bytes" -> TRUE
      [] v.kind = "Some" -> HasBytes(v.v)
      [] v.kind = "List" -> \E i \in 1..Len(v.items) : HasBytes(v.items[i])
      [] v.kind = "Map" -> \E i \in 1..Len(v.entries) : HasBytes(v.entries[i].v)
      [] v.kind = "Struct" -> \E i \in 1..Len(v.fields) : HasBytes(v.fields[i].v)
      [] v.kind = "TupleVariant" -> \E i \in 1..Len(v.fields) : HasBytes(v.fields[i])
      [] OTHER -> FALSE

\* the compact output of the JSON writer used on its own: no value is
\* refused and none is rewritten
RECURSIVE CompactJson(_)
CompactJson(v) ==
    CASE v.kind \in {"Null", "None", "Unit"} -> <<Tok("null")>>
      [] v.kind = "Bool" -> <<Tok(IF v.b THEN "true" ELSE "false")>>
      [] v.kind = "Integer" -> <<NumTok(IntText(v.neg, v.mag))>>
      [] v.kind = "Float" ->
            IF v.cls = "finite" THEN <<NumTok(FloatText(v.neg, v.mant, v.scale))>>
            ELSE <<Tok("null")>>
      [] v.kind = "String" -> <<StrTok(v.s)>>
      [] v.kind = "Some" -> CompactJson(v.v)
      [] v.kind = "List" ->
            <<Tok("[")>> \o Joined([i \in 1..Len(v.items) |-> CompactJson(v.items[i])], 1)
            \o <<Tok("]")>>
      [] v.kind \in {"Map", "Struct"} ->
            LET es == IF v.kind = "Map" THEN v.entries ELSE v.fields
            IN <<Tok("{")>>
               \o Joined([i \in 1..Len(es) |->
                            <<StrTok(es[i].k), Tok(":")>> \o CompactJson(es[i].v)], 1)
               \o <<Tok("}")>>
      [] v.kind = "TupleVariant" ->
            <<Tok("{"), StrTok(v.variant), Tok(":"), Tok("[")>>
            \o Joined([i \in 1..Len(v.fields) |-> CompactJson(v.fields[i])], 1)
            \o <<Tok("]"), Tok("}")>>

\* C26: a generic decode of a document in which no object has "/" as its
\* first key gives the value, or the error, that the JSON decoder gives when
\* used without this layer; a value with no bytes, no CID and no non-finite
\* float is written exactly as the JSON writer writes it.
C26_Transparent ==
    /\ (call = "from_slice" /\ target = TIpld /\ ~HasSlashFirst(input.toks))
          => LET json == Deser(SliceSource(input.toks), 1, FALSE, TIpld)
             IN /\ json.st = "err"
                      => /\ decoded.st = "err"
                         /\ decoded.err = DecodeError_Message(json.err)
                /\ json.st = "ok"
                      => IF Deserializer_end(SliceSource(input.toks), json.pos).ok
                         THEN decoded.st = "ok" /\ decoded.val = json.val
                         ELSE decoded.st = "err" /\ decoded.err = DecodeError_TrailingData
                /\ json.st \in {"ok", "err"}
    /\ (call = "to_vec" /\ ~HasBytes(value) /\ ~HasLink(value) /\ ~HasNonFinite(value))
          => /\ encoded.st = "ok"
             /\ encoded.bytes = CompactJson(value)

C26_Witness ==
    /\ call = "from_slice"
    /\ target = TIpld
    /\ ~HasSlashFirst(input.toks)
    /\ IsObjectDoc(input.toks)
    /\ Len(EntriesFrom(input.toks, 2)) = 2
    /\ EntriesFrom(input.toks, 2)[2] = [k |-> SlashKey, v |-> <<StrTok(CidTextA)>>]
    /\ decoded.st = "ok"
    /\ decoded.val = Deser(SliceSource(input.toks), 1, FALSE, TIpld).val


(***************************************************************************)
(* C27: what contributes a link                                            *)
(***************************************************************************)
\* the places of the top-level value where an object starts with the key
\* "/" over a string
LinkObjects(ts) ==
    {i \in 1..(Len(ts) - 4) :
        /\ ts[i].t = "{" /\ ts[i + 1] = StrTok(SlashKey) /\ ts[i + 2].t = ":"
        /\ ts[i + 3].t = "str" /\ ts[i + 4].t = "}"}

\* C27: when links succeeds, it has returned one CID for each object of the
\* document whose first key is "/" over CID text, and nothing else: keys,
\* scalars, strings that read as a CID, bytes shapes and a "/" that is not
\* the first key add nothing.
C27_LinkCount ==
    (call = "links" /\ found.st = "ok")
       => /\ Len(found.links) = Cardinality(LinkObjects(TopValue))
          /\ \A i \in LinkObjects(TopValue) : CidFromText(TopValue[i + 3].s).ok
          /\ \A j \in 1..Len(found.links) :
                \E i \in LinkObjects(TopValue) :
                   found.links[j] = CidFromText(TopValue[i + 3].s).cid
          /\ LinkObjects(TopValue) = {} => found.links = <<>>

C27_Witness ==
    /\ call = "links"
    /\ found.st = "ok"
    /\ Len(found.links) = 1
    /\ Cardinality({i \in 1..Len(input.toks) :
                       input.toks[i].t = "str" /\ CidFromText(input.toks[i].s).ok}) = 3


(***************************************************************************)
(* C28: links and what follows the top-level value                         *)
(***************************************************************************)
\* C28: links returns an error when something other than whitespace follows
\* the top-level value, as from_slice does.
C28_LinksTrailingData ==
    (/\ call = "links"
     /\ TopEnd # 0
     /\ ~OnlyWs(Rest))
       => found.st = "err"


C30_FirstKeyRuleTyped ==
    (/\ call = "from_slice"
     /\ target.t \in {"BTreeMap", "Struct"}
     /\ IsObjectDoc(input.toks)
     /\ EntriesFrom(input.toks, 2) # <<>>)
       => LET entries == EntriesFrom(input.toks, 2)
          IN /\ entries[1].k = SlashKey => decoded.st = "err"
             /\ (/\ entries[1].k # SlashKey
                 /\ HasKey(entries, SlashKey)
                 /\ DistinctKeys(entries)
                 /\ \A i \in 1..Len(entries) :
                       from_slice(entries[i].v, EntryType(target, entries[i].k)).st = "ok")
                   => /\ decoded.st = "ok"
                      /\ decoded.val.kind = IF target.t = "Struct" THEN "Struct" ELSE "Map"
                      /\ target.t = "BTreeMap"
                            => /\ Len(decoded.val.entries) = Len(entries)
                               /\ \A i \in 1..Len(entries) :
                                     \E j \in 1..Len(decoded.val.entries) :
                                        decoded.val.entries[j] =
                                           [k |-> entries[i].k,
                                            v |-> from_slice(entries[i].v,
                                                             ElemType(target)).val]

\* C30 happens: a map of CIDs was asked for, and the object holds two links,
\* the second under "/"
C30_Witness ==
    /\ call = "from_slice"
    /\ target = TBTreeMap(TCid)
    /\ input.toks = JsonObject(<<[k |-> NameA, v |-> JsonLink(CidTextA)],
                                 [k |-> SlashKey, v |-> JsonLink(CidTextB)]>>)
    /\ decoded.st = "ok"
    /\ decoded.val = VMap(<<[k |-> SlashKey, v |-> VLink(CidB)],
                            [k |-> NameA, v |-> VLink(CidA)]>>)

====
